---- MODULE Spec2Model ----
(***************************************************************************)
(* Model of the rdr repository (bmflynn/rdr): the granule Collector        *)
(* (rdr-lib/src/collector.rs), the RdrData accumulator and the Common RDR  *)
(* codec (rdr-lib/src/rdr.rs).                                             *)
(*                                                                         *)
(* Numbers.  IET times are u64 microseconds in the code.  TLC's integers   *)
(* are 32 bit, so u64 is modelled by arithmetic modulo U64_MOD and i64 by  *)
(* the range up to I64_MAX = U64_MOD/2 - 1; granule lengths and the base   *)
(* time of the configurations are scaled down with them (base_time stays   *)
(* >= 2*gran_len and is not a multiple of gran_len, as in the shipped      *)
(* configurations).  i32/u32 values keep their width.                      *)
(*                                                                         *)
(* Text.  A string that the codec writes is a sequence of byte values.     *)
(*                                                                         *)
(* Time.  rdr-lib's Time wraps an epoch of the hifitime library, which is  *)
(* no part of this repository; a Time is modelled by its iet() value.      *)
(***************************************************************************)
EXTENDS Integers, Sequences, FiniteSets, TLC

VARIABLES
    \* Collector fields (rdr-lib/src/collector.rs:15-30)
    sat, primary_ids, packed_ids, products, ids, primary, packed,
    \* build profile of the process: are integer overflows checked (dev) or wrapping (release)
    overflow_checks,
    \* the driver of the collector: its position and what the calls returned
    phase, nadds, call, emitted, hist, fed,
    \* a stand-alone RdrData accumulator and its driver
    rdrdata, npkts, all_accepted,
    \* the last call of a function without state: its name, arguments and result
    fcall,
    \* create_rdr: the producer thread, the channel, the consumer thread and the
    \* record of the groups sent
    producer, chan, consumer, sent

vars == <<sat, primary_ids, packed_ids, products, ids, primary, packed,
          overflow_checks, phase, nadds, call, emitted, hist, fed,
          rdrdata, npkts, all_accepted, fcall, producer, chan, consumer, sent>>

collectorVars == <<sat, primary_ids, packed_ids, products, ids, primary, packed,
                   overflow_checks, phase, nadds, call, emitted, hist, fed>>

rdrVars == <<rdrdata, npkts, all_accepted>>

fnVars == <<fcall>>

pipeVars == <<producer, chan, consumer, sent>>

----------------------------------------------------------------------------
(* Bounds of the model *)

\* number of Collector.add calls of one run
MaxAdds == 4
\* number of RdrData.add_packet calls of one run
MaxPkts == 3
\* number of packets of the input of create_rdr
MaxInput == 3
\* length of a day and of the unit of the granule id, in units of IET time; largest
\* number of granules of one aggregate
DayLen == 8
IdUnit == 2
MaxAggr == 3
\* largest base time, granule length and granule number get_granule_start is called with
MaxBase == 12
MaxGranLen == 5
MaxGranules == 4
\* stand-in for 2^64, the modulus of u64 arithmetic
U64_MOD == 64

I64_MAX == (U64_MOD \div 2) - 1
I32_MAX == 2147483647

----------------------------------------------------------------------------
(* Maps (HashMap) and sequences *)

EmptyMap == [x \in {} |-> 0]

MapPut(m, k, v) == [x \in (DOMAIN m) \cup {k} |-> IF x = k THEN v ELSE m[x]]

MapRemove(m, k) == [x \in (DOMAIN m) \ {k} |-> m[x]]

Range(s) == {s[i] : i \in DOMAIN s}

RECURSIVE SumSeq(_)
SumSeq(s) == IF s = <<>> THEN 0 ELSE Head(s) + SumSeq(Tail(s))

RECURSIVE Flatten(_)
Flatten(ss) == IF ss = <<>> THEN <<>> ELSE Head(ss) \o Flatten(Tail(ss))

\* The elements of a set of numbers in ascending order (Vec::sort_unstable)
RECURSIVE SortedSeq(_)
SortedSeq(S) ==
    IF S = {} THEN <<>>
    ELSE LET m == CHOOSE x \in S : \A y \in S : x <= y
         IN  <<m>> \o SortedSeq(S \ {m})

\* The elements of a set in the order an iteration over a HashMap or HashSet
\* visits them: unspecified by the language, fixed here
RECURSIVE IterOrder(_)
IterOrder(S) ==
    IF S = {} THEN <<>>
    ELSE LET m == CHOOSE x \in S : TRUE
         IN  <<m>> \o IterOrder(S \ {m})

----------------------------------------------------------------------------
(* Configuration: config.rs *)

NPP == <<78, 80, 80>>
VIIRS == <<86, 73, 73, 82, 83>>
SCIENCE == <<83, 67, 73, 69, 78, 67, 69>>
SPACECRAFT == <<83, 80, 65, 67, 69, 67, 82, 65, 70, 84>>
DIARY == <<68, 73, 65, 82, 89>>
TELEMETRY == <<84, 69, 76, 69, 77, 69, 84, 82, 89>>

\* One primary product with three APIDs and two packed products of different
\* granule lengths
ConfigA ==
    [ satellite |-> [id |-> "npp", short_name |-> NPP, base_time |-> 9,
                     mission |-> "S-NPP/JPSS"],
      products |-> <<
        [product_id |-> "RVIRS", sensor |-> VIIRS, short_name |-> "VIIRS-SCIENCE-RDR",
         type_id |-> SCIENCE, gran_len |-> 4,
         apids |-> << [num |-> 826, name |-> <<83, 67, 73>>],
                      [num |-> 821, name |-> <<69, 78, 71>>],
                      [num |-> 825, name |-> <<67, 65, 76>>] >>],
        [product_id |-> "RNSCA", sensor |-> SPACECRAFT, short_name |-> "SPACECRAFT-DIARY-RDR",
         type_id |-> DIARY, gran_len |-> 3,
         apids |-> << [num |-> 11, name |-> <<68, 73, 65>>] >>],
        [product_id |-> "RTNSC", sensor |-> SPACECRAFT, short_name |-> "SPACECRAFT-TELEMETRY-RDR",
         type_id |-> TELEMETRY, gran_len |-> 1,
         apids |-> << [num |-> 0, name |-> <<84, 76, 77>>] >>] >>,
      rdrs |-> << [product |-> "RVIRS", packed_with |-> <<"RNSCA", "RTNSC">>] >> ]

Configs == {ConfigA}

\* Two primary products, each packed with a product of its own, and a product that
\* no RdrSpec names
ConfigB ==
    [ satellite |-> ConfigA.satellite,
      products |-> <<
        [product_id |-> "RVIRS", sensor |-> VIIRS, short_name |-> "VIIRS-SCIENCE-RDR",
         type_id |-> SCIENCE, gran_len |-> 4,
         apids |-> << [num |-> 826, name |-> <<83, 67, 73>>] >>],
        [product_id |-> "RCRIS", sensor |-> <<67, 114, 73, 83>>, short_name |-> "CRIS-SCIENCE-RDR",
         type_id |-> SCIENCE, gran_len |-> 4,
         apids |-> << [num |-> 1289, name |-> <<83, 67, 73>>] >>],
        [product_id |-> "RNSCA", sensor |-> SPACECRAFT, short_name |-> "SPACECRAFT-DIARY-RDR",
         type_id |-> DIARY, gran_len |-> 3,
         apids |-> << [num |-> 11, name |-> <<68, 73, 65>>] >>],
        [product_id |-> "RTNSC", sensor |-> SPACECRAFT, short_name |-> "SPACECRAFT-TELEMETRY-RDR",
         type_id |-> TELEMETRY, gran_len |-> 1,
         apids |-> << [num |-> 0, name |-> <<84, 76, 77>>] >>],
        [product_id |-> "RATMS", sensor |-> <<65, 84, 77, 83>>, short_name |-> "ATMS-SCIENCE-RDR",
         type_id |-> SCIENCE, gran_len |-> 4,
         apids |-> << [num |-> 528, name |-> <<83, 67, 73>>] >>] >>,
      rdrs |-> << [product |-> "RVIRS", packed_with |-> <<"RNSCA">>],
                  [product |-> "RCRIS", packed_with |-> <<"RTNSC">>] >> ]

\* The configurations validation is called with: any of the three products
\* configured, and up to two RdrSpecs that each pack up to two products, configured
\* or not
PackedWithLists == UNION {[1..n -> {"RNSCA", "RTNSC", "RXXXX"}] : n \in 0..2}
RdrSpecs == [product : {"RVIRS"}, packed_with : PackedWithLists]
RdrSpecLists == UNION {[1..n -> RdrSpecs] : n \in 0..2}
ParsedConfigs ==
    { [ConfigA EXCEPT
          !.products = SelectSeq(ConfigA.products, LAMBDA p : p.product_id \in ps),
          !.rdrs = rs] :
      ps \in SUBSET {"RVIRS", "RNSCA", "RTNSC"}, rs \in RdrSpecLists }

\* The YAML texts a configuration is read from: one that does not deserialize, and
\* one for every configuration
ConfigTexts ==
    {[parses |-> FALSE, config |-> ConfigA]} \cup
    {[parses |-> TRUE, config |-> c] : c \in ParsedConfigs}

ConfigOk(config) == [kind |-> "ok", config |-> config, err |-> "", msg |-> <<>>]
ConfigErr(e, msg) == [kind |-> "err", config |-> <<>>, err |-> e, msg |-> msg]

\* The packed_with entries, as (RdrSpec index, entry index), that name no product
InvalidPacked(config) ==
    LET product_ids == {config.products[i].product_id : i \in DOMAIN config.products}
    IN  { ij \in UNION {{<<i, j>> : j \in DOMAIN config.rdrs[i].packed_with} :
                          i \in DOMAIN config.rdrs} :
             config.rdrs[ij[1]].packed_with[ij[2]] \notin product_ids }

\* A variant of the validation that looks at the first packed product only
validate_FirstPacked(config) ==
    LET bad == {ij \in InvalidPacked(config) : ij[2] = 1}
    IN  IF bad = {} THEN ConfigOk(config)
        ELSE LET ij == CHOOSE x \in bad : \A y \in bad : x[1] <= y[1]
             IN  ConfigErr("ConfigInvalid",
                           <<config.rdrs[ij[1]].product,
                             config.rdrs[ij[1]].packed_with[ij[2]]>>)

\* Config::validate: the error names the first invalid entry in the order of the
\* two loops
validate(config) ==
    LET bad == InvalidPacked(config)
    IN  IF bad = {} THEN ConfigOk(config)
        ELSE LET ij == CHOOSE x \in bad : \A y \in bad :
                            x[1] < y[1] \/ (x[1] = y[1] /\ x[2] <= y[2])
             IN  ConfigErr("ConfigInvalid",
                           <<config.rdrs[ij[1]].product,
                             config.rdrs[ij[1]].packed_with[ij[2]]>>)

\* Config::with_data: deserialize, then validate
with_data(dat) ==
    IF ~dat.parses THEN ConfigErr("Yaml", <<>>) ELSE validate(dat.config)

\* Config::with_path: open the file, deserialize, then validate
with_path(file) ==
    IF ~file.opens THEN ConfigErr("Io", <<>>)
    ELSE IF ~file.dat.parses THEN ConfigErr("Yaml", <<>>)
    ELSE validate(file.dat.config)

\* The satellites with a built-in configuration
BuiltinSats == {"npp", "j01", "j02", "j03", "j04"}

\* The built-in configuration text of a satellite
get_default_content(satid) ==
    [parses |-> TRUE, config |-> [ConfigA EXCEPT !.satellite.id = satid]]

\* get_default: None for an unknown satellite; panics if the built-in text does not
\* load
get_default(satid) ==
    IF satid \notin BuiltinSats THEN [kind |-> "none"]
    ELSE LET r == with_data(get_default_content(satid))
         IN  IF r.kind = "ok" THEN [kind |-> "some", config |-> r.config]
             ELSE [kind |-> "panic"]

----------------------------------------------------------------------------
(* Granule arithmetic: rdr.rs *)

\* u64 arithmetic as the build without overflow checks computes it
WrapU64(n) == (n + 4 * U64_MOD) % U64_MOD

\* A variant that aligns the granules to zero instead of the base time
get_granule_start_FromZero(iet, gran_len, base_time) ==
    WrapU64((iet \div gran_len) * gran_len)

\* get_granule_start: the value the wrapping build returns; it is the exact value
\* whenever no operation overflows
get_granule_start(iet, gran_len, base_time) ==
    LET seconds_since_base == WrapU64(iet - base_time)
        granule_number == seconds_since_base \div gran_len
        ms == WrapU64(granule_number * gran_len)
    IN  WrapU64(ms + base_time)

\* Whether get_granule_start overflows u64: `iet - base_time` underflows (the later
\* product does not exceed the difference; the final sum can only overflow after
\* the difference wrapped)
GranuleStartOverflows(iet, gran_len, base_time) == iet < base_time

----------------------------------------------------------------------------
(* The fixed-layout records of the Common RDR: rdr.rs *)

StaticHeaderLEN == 72
ApidInfoLEN == 32
PacketTrackerLEN == 24
\* u32::MAX, all bits set; it lies outside TLC's integers and is written -1.
\* compile overwrites it before any record is encoded.
U32_MAX == -1

\* to_be_bytes of a 32 bit integer (negative values in two's complement)
BE4(n) ==
    LET m == IF n < 0 THEN -(n + 1) ELSE n
        b == <<(m \div 16777216) % 256, (m \div 65536) % 256, (m \div 256) % 256, m % 256>>
    IN  IF n < 0 THEN [i \in 1..4 |-> 255 - b[i]] ELSE b

\* to_be_bytes of a 64 bit integer; the model's values fit 32 bits, the high four
\* bytes are the sign extension
BE8(n) == (IF n < 0 THEN <<255, 255, 255, 255>> ELSE <<0, 0, 0, 0>>) \o BE4(n)

\* from_bytes4!(i32, ..): two's complement
I32FromBE(data, start) ==
    IF data[start + 1] >= 128
    THEN -1 - ((255 - data[start + 1]) * 16777216 + (255 - data[start + 2]) * 65536
                + (255 - data[start + 3]) * 256 + (255 - data[start + 4]))
    ELSE data[start + 1] * 16777216 + data[start + 2] * 65536
            + data[start + 3] * 256 + data[start + 4]

\* from_bytes4!(u32, ..): a value of 2^31 or more lies outside TLC's integers and
\* is written as the value minus 2^32, as U32_MAX is
U32FromBE(data, start) == I32FromBE(data, start)

\* from_bytes8!(u64, ..): the high four bytes are zero for every value of the model
U64FromBE(data, start) == U32FromBE(data, start + 4)

\* from_bytes8!(i64, ..): the model's values fit 32 bits, the low four bytes give
\* the value when the high four are its sign extension
I64FromBE(data, start) == I32FromBE(data, start + 4)

\* copy_with_len into a zeroed field of `len` bytes: NUL padded, or cut to len
copy_with_len(src, len) == [i \in 1..len |-> IF i <= Len(src) THEN src[i] ELSE 0]

\* to_str!: trim_matches('\0') removes the NUL bytes at both ends
RECURSIVE TrimNulEnd(_)
TrimNulEnd(s) ==
    IF s = <<>> THEN <<>>
    ELSE IF s[Len(s)] = 0 THEN TrimNulEnd(SubSeq(s, 1, Len(s) - 1)) ELSE s

RECURSIVE TrimNulStart(_)
TrimNulStart(s) ==
    IF s = <<>> THEN <<>>
    ELSE IF Head(s) = 0 THEN TrimNulStart(Tail(s)) ELSE s

to_str(data) == TrimNulStart(TrimNulEnd(data))

\* &data[a..b] with 0-based half-open bounds
Slice(data, a, b) == SubSeq(data, a + 1, b)

\* A variant of the header that starts without APIDs, to be counted as they are seen
StaticHeaderNew_NoApids(time, sat_name, product) ==
    [ satellite |-> sat_name,
      sensor |-> product.sensor,
      type_id |-> product.type_id,
      num_apids |-> 0,
      apid_list_offset |-> StaticHeaderLEN,
      pkt_tracker_offset |-> 0,
      ap_storage_offset |-> 0,
      next_pkt_position |-> 0,
      start_boundary |-> time,
      end_boundary |-> WrapU64(time + product.gran_len) ]

\* StaticHeader::new
StaticHeaderNew(time, sat_name, product) ==
    [ satellite |-> sat_name,
      sensor |-> product.sensor,
      type_id |-> product.type_id,
      num_apids |-> Len(product.apids),
      apid_list_offset |-> StaticHeaderLEN,
      pkt_tracker_offset |-> 0,
      ap_storage_offset |-> 0,
      next_pkt_position |-> 0,
      start_boundary |-> time,
      end_boundary |-> WrapU64(time + product.gran_len) ]

StaticHeaderAsBytes(h) ==
    copy_with_len(h.satellite, 4) \o copy_with_len(h.sensor, 16)
        \o copy_with_len(h.type_id, 16)
        \o BE4(h.num_apids) \o BE4(h.apid_list_offset) \o BE4(h.pkt_tracker_offset)
        \o BE4(h.ap_storage_offset) \o BE4(h.next_pkt_position)
        \o BE8(h.start_boundary) \o BE8(h.end_boundary)

StaticHeaderFromBytes(data) ==
    [ satellite |-> to_str(Slice(data, 0, 4)),
      sensor |-> to_str(Slice(data, 4, 20)),
      type_id |-> to_str(Slice(data, 20, 36)),
      num_apids |-> U32FromBE(data, 36),
      apid_list_offset |-> U32FromBE(data, 40),
      pkt_tracker_offset |-> U32FromBE(data, 44),
      ap_storage_offset |-> U32FromBE(data, 48),
      next_pkt_position |-> U32FromBE(data, 52),
      start_boundary |-> U64FromBE(data, 56),
      end_boundary |-> U64FromBE(data, 64) ]

\* ApidInfo::new
ApidInfoNew(name, val) ==
    [ name |-> name, value |-> val, pkt_tracker_start_idx |-> U32_MAX,
      pkts_reserved |-> 0, pkts_received |-> 0 ]

ApidInfoAsBytes(info) ==
    copy_with_len(info.name, 16) \o BE4(info.value) \o BE4(info.pkt_tracker_start_idx)
        \o BE4(info.pkts_reserved) \o BE4(info.pkts_received)

ApidInfoFromBytes(data) ==
    [ name |-> to_str(Slice(data, 0, 16)),
      value |-> U32FromBE(data, 16),
      pkt_tracker_start_idx |-> U32FromBE(data, 20),
      pkts_reserved |-> U32FromBE(data, 24),
      pkts_received |-> U32FromBE(data, 28) ]

PacketTrackerAsBytes(t) ==
    BE8(t.obs_time) \o BE4(t.sequence_number) \o BE4(t.size) \o BE4(t.offset)
        \o BE4(t.fill_percent)

\* A variant of the decoder that leaves fill_percent at its default
PacketTrackerFromBytes_NoFill(data) ==
    [ obs_time |-> I64FromBE(data, 0),
      sequence_number |-> I32FromBE(data, 8),
      size |-> I32FromBE(data, 12),
      offset |-> I32FromBE(data, 16),
      fill_percent |-> 0 ]

PacketTrackerFromBytes(data) ==
    [ obs_time |-> I64FromBE(data, 0),
      sequence_number |-> I32FromBE(data, 8),
      size |-> I32FromBE(data, 12),
      offset |-> I32FromBE(data, 16),
      fill_percent |-> I32FromBE(data, 20) ]

\* slice.chunks(len) without the short trailing chunk, which both loops of
\* CommonRdr::from_bytes leave by `break`
FullChunks(data, len) ==
    [i \in 1..(Len(data) \div len) |-> SubSeq(data, (i - 1) * len + 1, i * len)]

\* CommonRdr::from_bytes
CommonRdrFromBytes(data) ==
    LET static_header == StaticHeaderFromBytes(Slice(data, 0, StaticHeaderLEN))
        apids == FullChunks(Slice(data, static_header.apid_list_offset,
                                  static_header.pkt_tracker_offset), ApidInfoLEN)
        trks == FullChunks(Slice(data, static_header.pkt_tracker_offset,
                                 static_header.ap_storage_offset), PacketTrackerLEN)
    IN  [ static_header |-> static_header,
          apid_list |-> [i \in DOMAIN apids |-> ApidInfoFromBytes(apids[i])],
          packet_trackers |-> [i \in DOMAIN trks |-> PacketTrackerFromBytes(trks[i])] ]

----------------------------------------------------------------------------
(* The RdrData accumulator: rdr.rs *)

\* RdrData::new
RdrDataNew(s, product, time) ==
    [ product_id |-> product.product_id,
      short_name |-> product.short_name,
      apid_list |-> [a \in {product.apids[i].num : i \in DOMAIN product.apids} |->
                        LET i == CHOOSE j \in DOMAIN product.apids :
                                    /\ product.apids[j].num = a
                                    /\ \A k \in DOMAIN product.apids :
                                          product.apids[k].num = a => k <= j
                        IN  ApidInfoNew(product.apids[i].name, a)],
      header |-> StaticHeaderNew(time, s.short_name, product),
      trackers |-> EmptyMap,
      ap_storage |-> <<>>,
      ap_storage_offset |-> 0 ]

\* A variant of the offset that counts only the packets of the tracker's own APID
TrackerOffset_PerApid(data, apid) ==
    IF data.trackers[apid] = <<>> THEN 0
    ELSE LET last == data.trackers[apid][Len(data.trackers[apid])]
         IN  last.offset + last.size

\* add_packet: the offset of a new tracker, the number of payload bytes stored so far
TrackerOffset(data, apid) == data.ap_storage_offset

\* A variant of add_packet that does not advance the running offset
add_packet_NoAdvance(data, pkt_time, pkt) ==
    IF pkt.apid \notin DOMAIN data.apid_list
    THEN [err |-> "InvalidPacket", data |-> data]
    ELSE
    LET d1 == [data EXCEPT !.apid_list[pkt.apid].pkts_reserved = @ + 1,
                           !.apid_list[pkt.apid].pkts_received = @ + 1]
        d2 == IF pkt.apid \in DOMAIN d1.trackers THEN d1
              ELSE [d1 EXCEPT !.trackers = MapPut(@, pkt.apid, <<>>)]
    IN  IF pkt_time > I64_MAX
        THEN [err |-> "InvalidTime", data |-> d2]
        ELSE [ err |-> "",
               data |-> [d2 EXCEPT
                           !.trackers[pkt.apid] =
                               Append(@, [ obs_time |-> pkt_time,
                                           sequence_number |-> pkt.sequence_id,
                                           size |-> Len(pkt.data),
                                           offset |-> d2.ap_storage_offset,
                                           fill_percent |-> 0 ]),
                           !.ap_storage = Append(@, [iet |-> pkt_time, pkt |-> pkt])] ]

\* RdrData::add_packet: the error it returns ("" for Ok) and the accumulator it
\* leaves behind; `?` returns between the updates, which are made in place
add_packet(data, pkt_time, pkt) ==
    IF pkt.apid \notin DOMAIN data.apid_list
    THEN [err |-> "InvalidPacket", data |-> data]
    ELSE
    LET d1 == [data EXCEPT !.apid_list[pkt.apid].pkts_reserved = @ + 1,
                           !.apid_list[pkt.apid].pkts_received = @ + 1]
        pkt_size == Len(pkt.data)
    IN  IF pkt_size > I32_MAX
        THEN [err |-> "InvalidPacket", data |-> d1]
        ELSE
        LET d2 == IF pkt.apid \in DOMAIN d1.trackers THEN d1
                  ELSE [d1 EXCEPT !.trackers = MapPut(@, pkt.apid, <<>>)]
        IN  IF pkt_time > I64_MAX
            THEN [err |-> "InvalidTime", data |-> d2]
            ELSE
            LET tracker == [ obs_time |-> pkt_time,
                             sequence_number |-> pkt.sequence_id,
                             size |-> pkt_size,
                             offset |-> TrackerOffset(d2, pkt.apid),
                             fill_percent |-> 0 ]
            IN  [ err |-> "",
                  data |-> [d2 EXCEPT
                              !.trackers[pkt.apid] = Append(@, tracker),
                              !.ap_storage = Append(@, [iet |-> pkt_time, pkt |-> pkt]),
                              !.ap_storage_offset = @ + pkt_size] ]

\* compile: the APIDs in ascending order
CompileApids(data) == SortedSeq(DOMAIN data.apid_list)

\* A variant of the copy that starts every APID's trackers at index 0
CompileApidList_ZeroIdx(data) ==
    LET apids == CompileApids(data)
    IN  [i \in DOMAIN apids |->
            [data.apid_list[apids[i]] EXCEPT !.pkt_tracker_start_idx = 0]]

\* compile: the copy of apid_list with pkt_tracker_start_idx set to the running sum
\* of pkts_received over the sorted APIDs
CompileApidList(data) ==
    LET apids == CompileApids(data)
    IN  [i \in DOMAIN apids |->
            [data.apid_list[apids[i]] EXCEPT
                !.pkt_tracker_start_idx =
                    SumSeq([j \in 1..(i - 1) |-> data.apid_list[apids[j]].pkts_received])]]

\* A variant of the header that sizes the APID list with the tracker record length
CompileHeader_TrackerLen(data) ==
    LET pkt_tracker_offset ==
            data.header.apid_list_offset
                + Cardinality(DOMAIN data.apid_list) * PacketTrackerLEN
    IN  [data.header EXCEPT
            !.pkt_tracker_offset = pkt_tracker_offset,
            !.ap_storage_offset =
                pkt_tracker_offset + Len(data.ap_storage) * PacketTrackerLEN,
            !.next_pkt_position = data.ap_storage_offset]

\* compile: the header with its computed fields
CompileHeader(data) ==
    LET pkt_tracker_offset ==
            data.header.apid_list_offset + Cardinality(DOMAIN data.apid_list) * ApidInfoLEN
        tracker_count ==
            SumSeq([i \in DOMAIN IterOrder(DOMAIN data.trackers) |->
                       Len(data.trackers[IterOrder(DOMAIN data.trackers)[i]])])
    IN  [data.header EXCEPT
            !.pkt_tracker_offset = pkt_tracker_offset,
            !.ap_storage_offset = pkt_tracker_offset + tracker_count * PacketTrackerLEN,
            !.next_pkt_position = data.ap_storage_offset]

\* A variant that writes the trackers in descending order of the APIDs
CompileTrackers_Descending(data) ==
    LET apids == CompileApids(data)
        n == Len(apids)
    IN  Flatten([i \in DOMAIN apids |->
                    IF apids[n + 1 - i] \in DOMAIN data.trackers
                    THEN data.trackers[apids[n + 1 - i]] ELSE <<>>])

\* compile: the trackers in the order of the sorted APIDs, each APID's in insertion order
CompileTrackers(data) ==
    LET apids == CompileApids(data)
    IN  Flatten([i \in DOMAIN apids |->
                    IF apids[i] \in DOMAIN data.trackers
                    THEN data.trackers[apids[i]] ELSE <<>>])

\* RdrData::compile: the bytes of the Common RDR
Compile(data) ==
    LET infos == CompileApidList(data)
        trks == CompileTrackers(data)
    IN  StaticHeaderAsBytes(CompileHeader(data))
            \o Flatten([i \in DOMAIN infos |-> ApidInfoAsBytes(infos[i])])
            \o Flatten([i \in DOMAIN trks |-> PacketTrackerAsBytes(trks[i])])
            \o Flatten([i \in DOMAIN data.ap_storage |-> data.ap_storage[i].pkt.data])

----------------------------------------------------------------------------
(* The dumper: rdr-cmd/src/command_dump.rs *)

\* The tracker offset that marks a slot without a packet
NO_PACKETS_RECEIVED == -1

\* ApidInfo::all_from_bytes: the records of the full chunks; a short chunk fails to
\* decode and is filtered out
ApidInfoAllFromBytes(data) ==
    LET chunks == FullChunks(data, ApidInfoLEN)
    IN  [i \in DOMAIN chunks |-> ApidInfoFromBytes(chunks[i])]

\* The loop of dump_datasets_to over the trackers of one APID: the bytes it writes
\* and how it ends ("ok", "err" by `?`, "panic" by a slice out of range)
RECURSIVE DumpTrackers(_, _, _, _)
DumpTrackers(data, header, tracker_offset, remaining) ==
    IF remaining <= 0 THEN [status |-> "ok", out |-> <<>>]
    ELSE IF tracker_offset > Len(data) THEN [status |-> "panic", out |-> <<>>]
    ELSE IF Len(data) - tracker_offset < PacketTrackerLEN
    THEN [status |-> "err", out |-> <<>>]
    ELSE
    LET tracker == PacketTrackerFromBytes(
                       Slice(data, tracker_offset, tracker_offset + PacketTrackerLEN))
    IN  IF tracker.offset = NO_PACKETS_RECEIVED THEN [status |-> "ok", out |-> <<>>]
        ELSE IF tracker.offset < 0 \/ tracker.size < 0
        THEN [status |-> "err", out |-> <<>>]
        ELSE
        LET start == header.ap_storage_offset + tracker.offset
            end == start + tracker.size
        IN  IF end > Len(data) THEN [status |-> "panic", out |-> <<>>]
            ELSE LET rest == DumpTrackers(data, header,
                                          tracker_offset + PacketTrackerLEN, remaining - 1)
                 IN  [status |-> rest.status, out |-> Slice(data, start, end) \o rest.out]

\* The loop over the APID list from its i-th record on
RECURSIVE DumpApids(_, _, _, _)
DumpApids(data, header, apids, i) ==
    IF i > Len(apids) THEN [status |-> "ok", out |-> <<>>]
    ELSE
    LET one == DumpTrackers(data, header,
                   header.pkt_tracker_offset
                       + apids[i].pkt_tracker_start_idx * PacketTrackerLEN,
                   apids[i].pkts_received)
    IN  IF one.status # "ok" THEN one
        ELSE LET rest == DumpApids(data, header, apids, i + 1)
             IN  [status |-> rest.status, out |-> one.out \o rest.out]

\* dump_datasets_to on one dataset: the content of the file it writes
Dump(data) ==
    IF Len(data) < StaticHeaderLEN THEN [status |-> "err", out |-> <<>>]
    ELSE
    LET header == StaticHeaderFromBytes(data)
        start == header.apid_list_offset
        end == start + ApidInfoLEN * header.num_apids
    IN  IF end > Len(data) \/ start > end THEN [status |-> "panic", out |-> <<>>]
        ELSE DumpApids(data, header, ApidInfoAllFromBytes(Slice(data, start, end)), 1)

----------------------------------------------------------------------------
(* The Collector: collector.rs *)

\* Collector::new: the lookup tables built from the configuration
CollectorProducts(config) ==
    [pid \in {config.products[i].product_id : i \in DOMAIN config.products} |->
        config.products[CHOOSE i \in DOMAIN config.products :
            /\ config.products[i].product_id = pid
            /\ \A j \in DOMAIN config.products :
                  config.products[j].product_id = pid => j <= i]]

CollectorIds(config) ==
    LET pairs == {<<i, j>> \in (DOMAIN config.products) \X (1..8) :
                      j \in DOMAIN config.products[i].apids}
        num(p) == config.products[p[1]].apids[p[2]].num
        later(p, q) == p[1] > q[1] \/ (p[1] = q[1] /\ p[2] >= q[2])
    IN  [a \in {num(p) : p \in pairs} |->
            config.products[(CHOOSE p \in pairs :
                /\ num(p) = a
                /\ \A q \in pairs : num(q) = a => later(p, q))[1]].product_id]

CollectorPrimaryIds(config) ==
    [pid \in {config.rdrs[i].product : i \in DOMAIN config.rdrs} |->
        config.rdrs[CHOOSE i \in DOMAIN config.rdrs :
            /\ config.rdrs[i].product = pid
            /\ \A j \in DOMAIN config.rdrs : config.rdrs[j].product = pid => j <= i].packed_with]

CollectorPackedIds(config) ==
    UNION {Range(config.rdrs[i].packed_with) : i \in DOMAIN config.rdrs}

\* What a call returns: Ok(None), Ok(Some(rdrs)), Err(err), the list of finish, or
\* no return at all (the thread panics)
RetNone == [kind |-> "none", err |-> "", groups |-> <<>>]
RetSome(rdrs) == [kind |-> "some", err |-> "", groups |-> <<rdrs>>]
RetErr(e) == [kind |-> "err", err |-> e, groups |-> <<>>]
RetList(gs) == [kind |-> "list", err |-> "", groups |-> gs]
RetPanic == [kind |-> "panic", err |-> "", groups |-> <<>>]

\* compile as the collector uses it, giving an Rdr: the granule's metadata
\* (GranuleMeta::new) and the accumulator whose bytes are Compile(data)
CompileFails(data) == data.header.start_boundary < sat.base_time

CompileRdr(data) ==
    [ product_id |-> data.product_id,
      begin_time_iet |-> data.header.start_boundary,
      end_time_iet |-> WrapU64(data.header.start_boundary
                                 + products[data.product_id].gran_len),
      data |-> data ]

\* A variant of the test that leaves the packed granule length out of the lower bound
PackedOverlaps_NoLength(packed_gran_start, primary_gran_start, primary_gran_end, packed_gran_len) ==
    /\ packed_gran_start > primary_gran_start
    /\ packed_gran_start < primary_gran_end

\* The test of overlapping_packed_rdrs on one packed granule
PackedOverlaps(packed_gran_start, primary_gran_start, primary_gran_end, packed_gran_len) ==
    /\ packed_gran_start > primary_gran_start - packed_gran_len
    /\ packed_gran_start < primary_gran_end

\* overlapping_packed_rdrs: for every packed product id, every entry of the packed
\* table that passes the test with that product's granule length
overlapping_packed_rdrs(rdr, tbl) ==
    LET pids == IterOrder(packed_ids)
        keys == IterOrder(DOMAIN tbl)
        hits(packed_id) ==
            LET packed_gran_len == products[packed_id].gran_len
            IN  [i \in DOMAIN keys |->
                    IF /\ PackedOverlaps(keys[i][2], rdr.begin_time_iet,
                                         rdr.end_time_iet, packed_gran_len)
                       /\ ~CompileFails(tbl[keys[i]])
                    THEN <<CompileRdr(tbl[keys[i]])>> ELSE <<>>]
    IN  Flatten([j \in DOMAIN pids |-> Flatten(hits(pids[j]))])

\* A variant of the key that looks one granule back instead of two
second_to_last_key_OneBack(product, gran_time) ==
    <<product.product_id, WrapU64(gran_time - product.gran_len)>>

\* The key add looks for after it stored a primary packet
second_to_last_key(product, gran_time) ==
    <<product.product_id, WrapU64(gran_time - product.gran_len * 2)>>

\* A variant of the lookup that falls back to some primary product
LookupProduct_Fallback(apid) ==
    IF apid \in DOMAIN ids THEN ids[apid] ELSE CHOOSE p \in DOMAIN primary_ids : TRUE

\* The product of a packet's APID, or "" when the APID is in no product
LookupProduct(apid) == IF apid \in DOMAIN ids THEN ids[apid] ELSE ""

\* A variant that always inserts a new accumulator under the key
EntryAddPacket_Insert(tbl, key, product, pkt_time, pkt) ==
    LET r == add_packet(RdrDataNew(sat, product, key[2]), pkt_time, pkt)
    IN  [err |-> r.err, tbl |-> MapPut(tbl, key, r.data)]

\* insert-or-fetch the accumulator under key and add the packet to it in place
EntryAddPacket(tbl, key, product, pkt_time, pkt) ==
    LET data == IF key \in DOMAIN tbl THEN tbl[key]
                ELSE RdrDataNew(sat, product, key[2])
        r == add_packet(data, pkt_time, pkt)
    IN  [err |-> r.err, tbl |-> MapPut(tbl, key, r.data)]

\* Collector::add: what it returns and the tables it leaves
CollectorAdd(pkt_time, pkt) ==
    LET prod_id == LookupProduct(pkt.apid)
        same(ret) == [ret |-> ret, primary |-> primary, packed |-> packed]
    IN
    IF prod_id = "" THEN same(RetNone)
    ELSE
    LET product == products[prod_id]
        gran_time == get_granule_start(pkt_time, product.gran_len, sat.base_time)
        key == <<product.product_id, gran_time>>
    IN
    IF overflow_checks /\ GranuleStartOverflows(pkt_time, product.gran_len, sat.base_time)
    THEN same(RetPanic)
    ELSE IF gran_time < sat.base_time THEN same(RetErr("InvalidGranuleStart"))
    ELSE IF prod_id \in DOMAIN primary_ids
    THEN
        LET e == EntryAddPacket(primary, key, product, pkt_time, pkt)
            stl == second_to_last_key(product, gran_time)
        IN  IF e.err # ""
            THEN [ret |-> RetErr(e.err), primary |-> e.tbl, packed |-> packed]
            ELSE IF stl \in DOMAIN e.tbl
            THEN [ret |-> IF CompileFails(e.tbl[stl]) THEN RetNone
                          ELSE LET rdr == CompileRdr(e.tbl[stl])
                               IN  RetSome(<<rdr>> \o overlapping_packed_rdrs(rdr, packed)),
                  primary |-> MapRemove(e.tbl, stl),
                  packed |-> packed]
            ELSE [ret |-> RetNone, primary |-> e.tbl, packed |-> packed]
    ELSE IF product.product_id \notin packed_ids THEN same(RetPanic)
    ELSE
        LET e == EntryAddPacket(packed, key, product, pkt_time, pkt)
        IN  [ret |-> IF e.err # "" THEN RetErr(e.err) ELSE RetNone,
             primary |-> primary, packed |-> e.tbl]

\* finish: the keys of the primary table sorted by granule time
RECURSIVE SortByTime(_)
SortByTime(keys) ==
    IF keys = {} THEN <<>>
    ELSE LET m == CHOOSE k \in keys : \A o \in keys : k[2] <= o[2]
         IN  <<m>> \o SortByTime(keys \ {m})

\* A variant of finish that returns the group of the earliest key only
CollectorFinish_First ==
    LET keys == SortByTime(DOMAIN primary)
    IN  IF keys = <<>> \/ CompileFails(primary[keys[1]]) THEN <<>>
        ELSE LET rdr == CompileRdr(primary[keys[1]])
             IN  << <<rdr>> \o overlapping_packed_rdrs(rdr, packed) >>

\* Collector::finish: one group for every key in that order
CollectorFinish ==
    LET keys == SortByTime(DOMAIN primary)
    IN  Flatten([i \in DOMAIN keys |->
            IF CompileFails(primary[keys[i]]) THEN <<>>
            ELSE LET rdr == CompileRdr(primary[keys[i]])
                 IN  << <<rdr>> \o overlapping_packed_rdrs(rdr, packed) >>])

----------------------------------------------------------------------------
(* The runs of the collector *)

\* The APIDs and packet times the driver draws from: primary packets at one time
\* before the base time and at the start of the first four primary granules, packed
\* packets within and across those granules; APID 999 is in no product
AddInputs ==
    ({826} \X {8, 9, 13, 17, 21}) \cup ({11} \X {9, 11, 14, 21})
        \cup ({0} \X {9, 11, 13}) \cup {<<999, 13>>}

\* The n-th packet of the run
CollectorPacket(apid, n) == [apid |-> apid, sequence_id |-> n, data |-> <<apid % 256, n>>]

Max(a, b) == IF a >= b THEN a ELSE b

\* Whether the call stored the packet in a table
Stored(apid, ret) == LookupProduct(apid) # "" /\ ret.kind \in {"none", "some"}

\* The record of the arrival order after a stored packet: per product the last and the
\* latest packet time, whether every product's packets came in non-decreasing time
\* order, and whether every packed packet came before each primary packet that is
\* later by the primary granule length (lag_len), or by the difference of the
\* primary and the packed granule length (lag_diff)
HistAfter(pkt_time, apid) ==
    LET pid == LookupProduct(apid)
        prim == {p \in DOMAIN primary_ids : hist.max_time[p] >= 0}
        late(d(_)) == \E p \in prim : pkt_time <= hist.max_time[p] - d(p)
        len(p) == products[p].gran_len
        diff(p) == products[p].gran_len - products[pid].gran_len
    IN  [ last_time |-> [hist.last_time EXCEPT ![pid] = pkt_time],
          max_time |-> [hist.max_time EXCEPT ![pid] = Max(@, pkt_time)],
          ordered |-> hist.ordered /\ pkt_time >= hist.last_time[pid],
          lag_len |-> hist.lag_len /\ (pid \in DOMAIN primary_ids \/ ~late(len)),
          lag_diff |-> hist.lag_diff /\ (pid \in DOMAIN primary_ids \/ ~late(diff)) ]

CollectorInitWith(config) ==
    /\ sat = config.satellite
    /\ products = CollectorProducts(config)
    /\ ids = CollectorIds(config)
    /\ primary_ids = CollectorPrimaryIds(config)
    /\ packed_ids = CollectorPackedIds(config)
    /\ hist = [ last_time |-> [pid \in DOMAIN CollectorProducts(config) |-> -1],
                max_time |-> [pid \in DOMAIN CollectorProducts(config) |-> -1],
                ordered |-> TRUE, lag_len |-> TRUE, lag_diff |-> TRUE ]
    /\ primary = EmptyMap
    /\ packed = EmptyMap
    /\ phase = "running"
    /\ nadds = 0
    /\ call = [op |-> "new", apid |-> 0, time |-> 0, ret |-> RetNone]
    /\ emitted = <<>>
    /\ fed = <<>>

CollectorInit == \E config \in Configs : CollectorInitWith(config)

\* One call of Collector::add: what it does to the collector and to the record of
\* the run
AddStep(apid, pkt_time) ==
    /\ phase = "running"
    /\ nadds < MaxAdds
    /\ LET r == CollectorAdd(pkt_time, CollectorPacket(apid, nadds))
       IN  /\ primary' = r.primary
           /\ packed' = r.packed
           /\ call' = [op |-> "add", apid |-> apid, time |-> pkt_time, ret |-> r.ret]
           /\ emitted' = emitted \o [i \in DOMAIN r.ret.groups |->
                                        [by |-> "add", rdrs |-> r.ret.groups[i]]]
           /\ phase' = IF r.ret.kind = "panic" THEN "panicked" ELSE "running"
           /\ hist' = IF Stored(apid, r.ret) THEN HistAfter(pkt_time, apid) ELSE hist
    /\ nadds' = nadds + 1
    /\ fed' = Append(fed, [apid |-> apid, time |-> pkt_time])
    /\ UNCHANGED <<sat, primary_ids, packed_ids, products, ids, overflow_checks>>

\* One call of Collector::add by a caller that does nothing else
Add(apid, pkt_time) == AddStep(apid, pkt_time) /\ UNCHANGED <<rdrVars, fnVars, pipeVars>>

\* The call of Collector::finish, which consumes the collector
FinishStep ==
    /\ phase = "running"
    /\ LET gs == CollectorFinish
       IN  /\ call' = [op |-> "finish", apid |-> 0, time |-> 0, ret |-> RetList(gs)]
           /\ emitted' = emitted \o [i \in DOMAIN gs |-> [by |-> "finish", rdrs |-> gs[i]]]
    /\ primary' = EmptyMap
    /\ phase' = "finished"
    /\ UNCHANGED <<sat, primary_ids, packed_ids, products, ids, overflow_checks,
                   packed, nadds, hist, fed>>

Finish == FinishStep /\ UNCHANGED <<rdrVars, fnVars, pipeVars>>

----------------------------------------------------------------------------
(* The runs of one accumulator *)

\* The packets and times add_packet is called with: two configured APIDs and one
\* that is not, payloads of different lengths and bytes, the largest sequence id;
\* the last time does not fit i64
RdrPackets ==
    { [apid |-> 826, sequence_id |-> 1, data |-> <<161>>],
      [apid |-> 826, sequence_id |-> 2, data |-> <<178, 179>>],
      [apid |-> 821, sequence_id |-> 16383, data |-> <<195, 196, 197>>],
      [apid |-> 821, sequence_id |-> 4, data |-> <<212>>],
      [apid |-> 999, sequence_id |-> 5, data |-> <<229>>] }
RdrTimes == {9, 10, I64_MAX + 1}

RdrInit ==
    /\ rdrdata = RdrDataNew(ConfigA.satellite, ConfigA.products[1], 9)
    /\ npkts = 0
    /\ all_accepted = TRUE

\* One call of RdrData::add_packet
RdrAddPacket(pkt_time, pkt) ==
    /\ npkts < MaxPkts
    /\ LET r == add_packet(rdrdata, pkt_time, pkt)
       IN  /\ rdrdata' = r.data
           /\ all_accepted' = (all_accepted /\ r.err = "")
    /\ npkts' = npkts + 1
    /\ UNCHANGED <<collectorVars, fnVars, pipeVars>>

----------------------------------------------------------------------------
(* Calls of the functions without state *)

FnInit == fcall = [fn |-> "none", arg |-> <<>>, ret |-> <<>>]

\* The values the codec is called with: texts that are empty, shorter than and as
\* long as their field, numbers at both ends of their type
I32_MIN == -I32_MAX - 1
SatNames == {<<>>, NPP, <<78, 80, 80, 49>>}
FieldTexts == {VIIRS, <<83, 80, 65, 67, 69, 67, 82, 65, 70, 84, 45, 68, 73, 65, 82, 89>>}
U32Values == {0, 72, I32_MAX, U32_MAX}
I32Values == {I32_MIN, -1, 0, I32_MAX}
U64Values == {0, I64_MAX}

StaticHeaders ==
    [ satellite : SatNames, sensor : FieldTexts, type_id : {SCIENCE, <<>>},
      num_apids : {0, 3}, apid_list_offset : {72}, pkt_tracker_offset : {0, I32_MAX},
      ap_storage_offset : {0, U32_MAX}, next_pkt_position : {0, 5},
      start_boundary : U64Values, end_boundary : U64Values ]
ApidInfos ==
    [ name : SatNames \cup FieldTexts, value : {0, 826}, pkt_tracker_start_idx : U32Values,
      pkts_reserved : U32Values, pkts_received : {0, 1} ]
PacketTrackers ==
    [ obs_time : {-1, 0, I64_MAX}, sequence_number : I32Values, size : {0, I32_MAX},
      offset : {0, 7}, fill_percent : I32Values ]

\* Config::with_data on one text; a run makes one call
ConfigWithData(dat) ==
    /\ fcall.fn = "none"
    /\ fcall' = [fn |-> "with_data", arg |-> dat, ret |-> with_data(dat)]
    /\ UNCHANGED <<collectorVars, rdrVars, pipeVars>>

\* Config::with_path on a file that cannot be opened or holds one text
ConfigWithPath(opens, dat) ==
    /\ fcall.fn = "none"
    /\ fcall' = [fn |-> "with_path", arg |-> dat,
                 ret |-> with_path([opens |-> opens, dat |-> dat])]
    /\ UNCHANGED <<collectorVars, rdrVars, pipeVars>>

\* get_default for a satellite id
GetDefault(satid) ==
    /\ fcall.fn = "none"
    /\ fcall' = [fn |-> "get_default", arg |-> satid, ret |-> get_default(satid)]
    /\ UNCHANGED <<collectorVars, rdrVars, pipeVars>>

\* get_granule_start for the packet time d after the start of granule k, counted
\* from the base time b in steps of L
GranuleStart(b, L, k, d) ==
    /\ fcall.fn = "none"
    /\ d < L
    /\ b + k * L + d < U64_MOD
    /\ fcall' = [fn |-> "get_granule_start",
                 arg |-> [iet |-> b + k * L + d, gran_len |-> L, base_time |-> b,
                          k |-> k, d |-> d],
                 ret |-> get_granule_start(b + k * L + d, L, b)]
    /\ UNCHANGED <<collectorVars, rdrVars, pipeVars>>

\* as_bytes followed by from_bytes on one value; a run makes one call
StaticHeaderRoundTrip(h) ==
    /\ fcall.fn = "none"
    /\ fcall' = [fn |-> "StaticHeader", arg |-> h,
                 ret |-> [bytes |-> StaticHeaderAsBytes(h),
                          back |-> StaticHeaderFromBytes(StaticHeaderAsBytes(h))]]
    /\ UNCHANGED <<collectorVars, rdrVars, pipeVars>>

ApidInfoRoundTrip(info) ==
    /\ fcall.fn = "none"
    /\ fcall' = [fn |-> "ApidInfo", arg |-> info,
                 ret |-> [bytes |-> ApidInfoAsBytes(info),
                          back |-> ApidInfoFromBytes(ApidInfoAsBytes(info))]]
    /\ UNCHANGED <<collectorVars, rdrVars, pipeVars>>

PacketTrackerRoundTrip(t) ==
    /\ fcall.fn = "none"
    /\ fcall' = [fn |-> "PacketTracker", arg |-> t,
                 ret |-> [bytes |-> PacketTrackerAsBytes(t),
                          back |-> PacketTrackerFromBytes(PacketTrackerAsBytes(t))]]
    /\ UNCHANGED <<collectorVars, rdrVars, pipeVars>>

\* The Application Packet storage of the blobs the dumper is called with, and the
\* trackers their tables are made of: one for each of three packets, and one with
\* offset -1
DumpStorage == <<161, 178, 179, 195>>
DumpTrackerChoices ==
    { [obs_time |-> 9, sequence_number |-> 1, size |-> 1, offset |-> 0, fill_percent |-> 0],
      [obs_time |-> 10, sequence_number |-> 2, size |-> 2, offset |-> 1, fill_percent |-> 0],
      [obs_time |-> 11, sequence_number |-> 3, size |-> 1, offset |-> 3, fill_percent |-> 0],
      [obs_time |-> 0, sequence_number |-> 0, size |-> 0, offset |-> NO_PACKETS_RECEIVED,
       fill_percent |-> 0] }
DumpTrackerLists == UNION {[1..n -> DumpTrackerChoices] : n \in 0..2}

\* The bytes of a Common RDR with two APIDs whose tracker lists are t1 and t2
RdrBlob(t1, t2) ==
    LET pkt_tracker_offset == StaticHeaderLEN + 2 * ApidInfoLEN
        ap_storage_offset == pkt_tracker_offset + PacketTrackerLEN * (Len(t1) + Len(t2))
        header == [ satellite |-> NPP, sensor |-> VIIRS, type_id |-> SCIENCE,
                    num_apids |-> 2, apid_list_offset |-> StaticHeaderLEN,
                    pkt_tracker_offset |-> pkt_tracker_offset,
                    ap_storage_offset |-> ap_storage_offset,
                    next_pkt_position |-> Len(DumpStorage),
                    start_boundary |-> 9, end_boundary |-> 13 ]
        info1 == [ name |-> <<69, 78, 71>>, value |-> 821, pkt_tracker_start_idx |-> 0,
                   pkts_reserved |-> Len(t1), pkts_received |-> Len(t1) ]
        info2 == [ name |-> <<83, 67, 73>>, value |-> 826, pkt_tracker_start_idx |-> Len(t1),
                   pkts_reserved |-> Len(t2), pkts_received |-> Len(t2) ]
        trks == t1 \o t2
    IN  StaticHeaderAsBytes(header) \o ApidInfoAsBytes(info1) \o ApidInfoAsBytes(info2)
            \o Flatten([i \in DOMAIN trks |-> PacketTrackerAsBytes(trks[i])])
            \o DumpStorage

\* dump_datasets_to on the dataset of one blob
DumpBlob(t1, t2) ==
    /\ fcall.fn = "none"
    /\ fcall' = [fn |-> "dump", arg |-> <<t1, t2>>, ret |-> Dump(RdrBlob(t1, t2))]
    /\ UNCHANGED <<collectorVars, rdrVars, pipeVars>>

----------------------------------------------------------------------------
(* Granule and aggregate metadata: rdr.rs, writer/mod.rs *)

\* attr_date and attr_time: the day of a time and the time within the day
attr_date(dt) == dt \div DayLen
attr_time(dt) == dt % DayLen

\* granule_id: the satellite name and the units since the base time
granule_id(sat_short_name, base_time, rdr_iet) ==
    <<sat_short_name, (rdr_iet - base_time) \div IdUnit>>

\* GranuleMeta::new, the fields the aggregate is made of; `time` is also the Rdr's
\* time as write_aggr_dataset reads it
GranuleMetaNew(time, s, product) ==
    [ collection |-> product.short_name,
      time |-> time,
      begin_date |-> attr_date(time),
      begin_time |-> attr_time(time),
      begin_time_iet |-> time,
      end_date |-> attr_date(time + product.gran_len),
      end_time |-> attr_time(time + product.gran_len),
      end_time_iet |-> time + product.gran_len,
      id |-> granule_id(s.short_name, s.base_time, time) ]

\* The loop of AggrMeta::from_rdrs from the i-th granule on: min_by keeps the
\* earlier one of two equal granules, max_by the later one
RECURSIVE FromRdrsLoop(_, _, _, _)
FromRdrsLoop(rdrs, i, start_rdr, end_rdr) ==
    IF i > Len(rdrs) THEN [start_rdr |-> start_rdr, end_rdr |-> end_rdr]
    ELSE FromRdrsLoop(rdrs, i + 1,
            IF rdrs[i].begin_time_iet < start_rdr.begin_time_iet THEN rdrs[i] ELSE start_rdr,
            IF rdrs[i].end_time_iet >= end_rdr.end_time_iet THEN rdrs[i] ELSE end_rdr)

\* AggrMeta::from_rdrs, for a list that is not empty
AggrMetaFromRdrs(rdrs) ==
    LET r == FromRdrsLoop(rdrs, 1, rdrs[1], rdrs[1])
    IN  [ begin_orbit_number |-> 1,
          end_orbit_number |-> 1,
          num_granules |-> Len(rdrs),
          begin_date |-> r.start_rdr.begin_date,
          begin_time |-> r.start_rdr.begin_time,
          begin_granule_id |-> r.start_rdr.id,
          end_date |-> r.end_rdr.end_date,
          end_time |-> r.end_rdr.end_time,
          end_granule_id |-> r.end_rdr.id ]

\* The loop of write_aggr_dataset from the i-th granule on
RECURSIVE WriteAggrLoop(_, _, _, _)
WriteAggrLoop(rdrs, i, start_rdr, end_rdr) ==
    IF i > Len(rdrs) THEN [start_rdr |-> start_rdr, end_rdr |-> end_rdr]
    ELSE WriteAggrLoop(rdrs, i + 1,
            IF rdrs[i].time > start_rdr.time THEN rdrs[i] ELSE start_rdr,
            IF rdrs[i].time < end_rdr.time THEN rdrs[i] ELSE end_rdr)

\* write_aggr_dataset: the attributes it writes to the aggregate dataset, for a list
\* that is not empty
write_aggr_dataset(rdrs) ==
    LET r == WriteAggrLoop(rdrs, 1, rdrs[1], rdrs[Len(rdrs)])
    IN  [ begin_orbit_number |-> 0,
          end_orbit_number |-> 0,
          num_granules |-> Len(rdrs),
          begin_date |-> attr_date(r.start_rdr.time),
          begin_time |-> attr_time(r.start_rdr.time),
          begin_granule_id |-> r.start_rdr.id,
          end_date |-> attr_date(r.end_rdr.time),
          end_time |-> attr_time(r.end_rdr.time),
          end_granule_id |-> r.end_rdr.id ]

\* The granule lists an aggregate is made from: granules of the primary product in
\* any order, also the same granule twice
AggrGranules ==
    {GranuleMetaNew(ConfigA.satellite.base_time + k * ConfigA.products[1].gran_len,
                    ConfigA.satellite, ConfigA.products[1]) : k \in 0..2}
AggrLists == UNION {[1..n -> AggrGranules] : n \in 1..MaxAggr}

\* The aggregate of one list of granules, as from_rdrs computes it and as
\* write_aggr_dataset writes it
Aggregate(rdrs) ==
    /\ fcall.fn = "none"
    /\ fcall' = [fn |-> "aggr", arg |-> rdrs,
                 ret |-> [meta |-> AggrMetaFromRdrs(rdrs),
                          written |-> write_aggr_dataset(rdrs)]]
    /\ UNCHANGED <<collectorVars, rdrVars, pipeVars>>

----------------------------------------------------------------------------
(* create_rdr: rdr-cmd/src/command_create.rs *)

\* The packets of the input, as (APID, time): primary packets before the base time
\* and in the first three granules, a packed packet, and a primary packet whose time
\* does not fit i64, for which add returns an error
PipePackets == {<<826, 8>>, <<826, 9>>, <<826, 13>>, <<826, 17>>, <<11, 9>>,
                <<826, I64_MAX + 2>>}
PipeInputs == UNION {[1..n -> PipePackets] : n \in 0..MaxInput}

\* The threads before they start: the producer holds the whole input and the sender
\* of the unbounded channel, the consumer the receiver
PipeInit(input) ==
    /\ producer = [pc |-> "iter", input |-> input, pending |-> <<>>]
    /\ chan = [queue |-> <<>>, tx_open |-> TRUE]
    /\ consumer = [pc |-> "recv", received |-> <<>>, writes |-> <<>>]
    /\ sent = <<>>

\* A variant of the producer's loop that leaves the loop when add returns an error
ProducerAfterAdd_Abort(ret) ==
    IF ret.kind = "panic" THEN "panicked"
    ELSE IF ret.kind = "err" THEN "sending" ELSE "iter"

\* Where the producer goes after a call of add: on with the loop, also after an
\* error (`continue`), unless the call panicked
ProducerAfterAdd(ret) == IF ret.kind = "panic" THEN "panicked" ELSE "iter"

\* A variant of the channel that hands out the newest message first
ChannelSend_Front(queue, rdrs) == <<rdrs>> \o queue

\* tx.send on the unbounded channel
ChannelSend(queue, rdrs) == Append(queue, rdrs)

\* One turn of the producer's loop: add the next packet and send the group it returns
ProducerAdd ==
    /\ producer.pc = "iter"
    /\ producer.input # <<>>
    /\ AddStep(Head(producer.input)[1], Head(producer.input)[2])
    /\ producer' = [producer EXCEPT !.pc = ProducerAfterAdd(call'.ret),
                                    !.input = Tail(@)]
    /\ chan' = [queue |-> IF call'.ret.kind = "some"
                          THEN ChannelSend(chan.queue, call'.ret.groups[1])
                          ELSE chan.queue,
                tx_open |-> call'.ret.kind # "panic"]
    /\ sent' = IF call'.ret.kind = "some"
               THEN Append(sent, [by |-> "add", rdrs |-> call'.ret.groups[1]])
               ELSE sent
    /\ UNCHANGED <<consumer, rdrVars, fnVars>>

\* The input is exhausted: the producer calls finish
ProducerFinish ==
    /\ producer.pc = "iter"
    /\ producer.input = <<>>
    /\ FinishStep
    /\ producer' = [producer EXCEPT !.pc = "sending", !.pending = call'.ret.groups]
    /\ UNCHANGED <<chan, consumer, sent, rdrVars, fnVars>>

\* One turn of the loop over the groups of finish
ProducerSend ==
    /\ producer.pc = "sending"
    /\ producer.pending # <<>>
    /\ producer' = [producer EXCEPT !.pending = Tail(@)]
    /\ chan' = [chan EXCEPT !.queue = ChannelSend(@, Head(producer.pending))]
    /\ sent' = Append(sent, [by |-> "finish", rdrs |-> Head(producer.pending)])
    /\ UNCHANGED <<consumer, collectorVars, rdrVars, fnVars>>

\* The producer's closure returns and drops the sender
ProducerDone ==
    /\ producer.pc = "sending"
    /\ producer.pending = <<>>
    /\ producer' = [producer EXCEPT !.pc = "done"]
    /\ chan' = [chan EXCEPT !.tx_open = FALSE]
    /\ UNCHANGED <<consumer, sent, collectorVars, rdrVars, fnVars>>

\* Meta::from_products: whether a configured product has one of the short names
MetaFromProducts(short_names) ==
    \E pid \in DOMAIN products : products[pid].short_name \in short_names

\* The results of rdr::create_rdr, the write of one file: Ok (TRUE) or an error
WriteResults == BOOLEAN

\* A variant of the consumer's loop that ends at the first failed write
ConsumerAfterWrite_Stop(ok) == IF ok THEN "recv" ELSE "done"

\* Where the consumer goes after a write attempt: on with the loop, the error logged
ConsumerAfterWrite(ok) == "recv"

\* One turn of the consumer's loop: receive a group and try to write its file; the
\* write succeeds or fails
ConsumerWrite(ok) ==
    /\ consumer.pc = "recv"
    /\ chan.queue # <<>>
    /\ LET rdrs == Head(chan.queue)
           found == MetaFromProducts({rdrs[i].data.short_name : i \in DOMAIN rdrs})
       IN  consumer' =
              [ pc |-> IF found THEN ConsumerAfterWrite(ok) ELSE "recv",
                received |-> Append(consumer.received, rdrs),
                writes |-> IF found
                           THEN Append(consumer.writes, [rdrs |-> rdrs, ok |-> ok])
                           ELSE consumer.writes ]
    /\ chan' = [chan EXCEPT !.queue = Tail(@)]
    /\ UNCHANGED <<producer, sent, collectorVars, rdrVars, fnVars>>

\* The channel is empty and the sender dropped: the loop over the receiver ends
ConsumerDone ==
    /\ consumer.pc = "recv"
    /\ chan.queue = <<>>
    /\ ~chan.tx_open
    /\ consumer' = [consumer EXCEPT !.pc = "done"]
    /\ UNCHANGED <<producer, chan, sent, collectorVars, rdrVars, fnVars>>

----------------------------------------------------------------------------
(* Specifications *)

Init == CollectorInit /\ overflow_checks \in BOOLEAN /\ RdrInit /\ FnInit /\ PipeInit(<<>>)

Next ==
    \/ \E in \in AddInputs : Add(in[1], in[2])
    \/ Finish

\* The collector driven by add calls and one finish
Spec == Init /\ [][Next]_vars

\* The packets the collector of ConfigB is driven with: packets of both primary
\* products in the first two granules, of their packed products, and of the product
\* no RdrSpec names
AddInputsMulti ==
    {<<826, 9>>, <<826, 13>>, <<1289, 9>>, <<11, 9>>, <<0, 9>>, <<528, 9>>}

InitMulti ==
    /\ CollectorInitWith(ConfigB) /\ overflow_checks \in BOOLEAN
    /\ RdrInit /\ FnInit /\ PipeInit(<<>>)

NextMulti ==
    \/ \E in \in AddInputsMulti : Add(in[1], in[2])
    \/ Finish

\* The collector of a configuration with two primary products
SpecMulti == InitMulti /\ [][NextMulti]_vars

InitRdr == CollectorInit /\ overflow_checks = FALSE /\ RdrInit /\ FnInit /\ PipeInit(<<>>)

NextRdr == \E pkt_time \in RdrTimes, pkt \in RdrPackets : RdrAddPacket(pkt_time, pkt)

\* One accumulator driven by add_packet calls
SpecRdr == InitRdr /\ [][NextRdr]_vars

NextFn ==
    \/ \E b \in 0..MaxBase, L \in 1..MaxGranLen, k \in 0..MaxGranules, d \in 0..(MaxGranLen - 1) :
          GranuleStart(b, L, k, d)
    \/ \E h \in StaticHeaders : StaticHeaderRoundTrip(h)
    \/ \E info \in ApidInfos : ApidInfoRoundTrip(info)
    \/ \E t \in PacketTrackers : PacketTrackerRoundTrip(t)
    \/ \E dat \in ConfigTexts : ConfigWithData(dat)
    \/ \E opens \in BOOLEAN, dat \in ConfigTexts : ConfigWithPath(opens, dat)
    \/ \E satid \in BuiltinSats \cup {"gcom"} : GetDefault(satid)
    \/ \E t1 \in DumpTrackerLists, t2 \in DumpTrackerLists : DumpBlob(t1, t2)
    \/ \E rdrs \in AggrLists : Aggregate(rdrs)

InitCreate ==
    /\ CollectorInit /\ overflow_checks \in BOOLEAN /\ RdrInit /\ FnInit
    /\ \E input \in PipeInputs : PipeInit(input)

NextCreate ==
    \/ ProducerAdd
    \/ ProducerFinish
    \/ ProducerSend
    \/ ProducerDone
    \/ \E ok \in WriteResults : ConsumerWrite(ok)
    \/ ConsumerDone

\* create_rdr on a finite input: the producer and the consumer thread interleaved
SpecCreate == InitCreate /\ [][NextCreate]_vars

\* The steps of the producer thread and of the consumer thread
ProducerNext == ProducerAdd \/ ProducerFinish \/ ProducerSend \/ ProducerDone
ConsumerNext == (\E ok \in WriteResults : ConsumerWrite(ok)) \/ ConsumerDone

\* create_rdr with its two threads scheduled fairly: a thread that can take a step
\* takes one (a write returns, a receive on a channel that is not empty returns)
SpecCreateFair ==
    /\ InitCreate /\ [][NextCreate]_vars
    /\ WF_vars(ProducerNext)
    /\ WF_vars(ConsumerNext)

\* The functions without state, each run calling one of them with one of its inputs
SpecFn == InitRdr /\ [][NextFn]_vars

----------------------------------------------------------------------------
(* Properties of the collector, checked under Spec *)

\* The configured APIDs and the granule start of a packet time, from the configuration
ConfiguredApids ==
    UNION {{products[p].apids[i].num : i \in DOMAIN products[p].apids} : p \in DOMAIN products}
GranuleOf(t, len) == sat.base_time + ((t - sat.base_time) \div len) * len

\* Whether the key k of a table is among the Rdrs after the first of a group
InTail(group, k) ==
    \E i \in 2..Len(group) :
        group[i].product_id = k[1] /\ group[i].begin_time_iet = k[2]

\* C1: the primary granules emitted for one product, by the add calls and then by
\* finish, have strictly increasing granule start times in the order of emission
C1_EmittedStrictlyIncreasing ==
    \A i \in DOMAIN emitted : \A j \in DOMAIN emitted :
        (i < j /\ emitted[i].rdrs[1].product_id = emitted[j].rdrs[1].product_id)
            => emitted[i].rdrs[1].begin_time_iet < emitted[j].rdrs[1].begin_time_iet

\* C2: an add of a primary packet with granule start G returns a group exactly when
\* the primary table holds the key (product, G - 2 * gran_len); that accumulator is
\* then compiled as the first Rdr of the group and removed, and no other primary
\* accumulator is removed or returned
C2_SecondToLastEmitted ==
    [][ (call'.op = "add" /\ nadds' = nadds + 1
            /\ call'.apid \in ConfiguredApids
            /\ ids[call'.apid] \in DOMAIN primary_ids
            /\ call'.ret.kind \in {"none", "some"})
        => LET pid == ids[call'.apid]
               L == products[pid].gran_len
               G == GranuleOf(call'.time, L)
               old == <<pid, G - 2 * L>>
               ret == call'.ret
           IN  /\ (ret.kind = "some") <=> (old \in DOMAIN primary)
               /\ ret.kind = "some" =>
                     /\ Len(ret.groups) = 1
                     /\ ret.groups[1][1].product_id = pid
                     /\ ret.groups[1][1].begin_time_iet = G - 2 * L
                     /\ ret.groups[1][1].data = primary[old]
                     /\ \A i \in 2..Len(ret.groups[1]) :
                           ret.groups[1][i].product_id \notin DOMAIN primary_ids
               /\ DOMAIN primary' = ((DOMAIN primary) \cup {<<pid, G>>}) \ {old}
               /\ \A k \in (DOMAIN primary') \ {<<pid, G>>} : primary'[k] = primary[k]
      ]_vars

\* C2 witness: an add returned a group while the accumulators of the packet's
\* granule and of the granule before it stay in the primary table
C2_Witness ==
    /\ call.op = "add"
    /\ call.ret.kind = "some"
    /\ LET pid == call.ret.groups[1][1].product_id
           B == call.ret.groups[1][1].begin_time_iet
           L == products[pid].gran_len
       IN  /\ <<pid, B + L>> \in DOMAIN primary
           /\ <<pid, B + 2 * L>> \in DOMAIN primary
           /\ <<pid, B>> \notin DOMAIN primary

\* C3: a packed accumulator with granule start P and its own product's granule
\* length Lp is in the group of a primary granule [B, B + L) exactly when
\* B - Lp < P < B + L
C3_PackedIncludedIff ==
    call.op \in {"add", "finish"} =>
        \A n \in DOMAIN call.ret.groups :
            LET group == call.ret.groups[n]
                B == group[1].begin_time_iet
                L == products[group[1].product_id].gran_len
            IN  \A k \in DOMAIN packed :
                    InTail(group, k)
                        <=> (B - products[k[1]].gran_len < k[2] /\ k[2] < B + L)

\* C4: finish returns one group for every accumulator of the primary table, in
\* ascending order of granule start time, each group being the compiled primary
\* followed by exactly its overlapping packed granules; an empty collector gives
\* the empty list
C4_FinishGroups ==
    [][ call'.op = "finish" =>
          LET gs == call'.ret.groups
          IN  /\ Len(gs) = Cardinality(DOMAIN primary)
              /\ \A k \in DOMAIN primary :
                    \E n \in DOMAIN gs :
                        /\ gs[n][1].product_id = k[1]
                        /\ gs[n][1].begin_time_iet = k[2]
                        /\ gs[n][1].data = primary[k]
              /\ \A n \in DOMAIN gs : \A m \in DOMAIN gs :
                    n < m => gs[n][1].begin_time_iet <= gs[m][1].begin_time_iet
              /\ \A n \in DOMAIN gs :
                    LET B == gs[n][1].begin_time_iet
                        L == products[gs[n][1].product_id].gran_len
                        over == {k \in DOMAIN packed :
                                    B - products[k[1]].gran_len < k[2] /\ k[2] < B + L}
                    IN  /\ \A k \in DOMAIN packed : InTail(gs[n], k) <=> k \in over
                        /\ Len(gs[n]) = 1 + Cardinality(over)
              /\ (primary = EmptyMap => gs = <<>>)
      ]_vars

\* C5: an add of a packet whose APID is in no configured product returns no output
\* and leaves the primary and the packed table as they were
C5_UnknownApidIgnored ==
    [][ (call'.op = "add" /\ nadds' = nadds + 1 /\ call'.apid \notin ConfiguredApids)
            => /\ call'.ret = RetNone
               /\ primary' = primary
               /\ packed' = packed
      ]_vars

\* C5 witness: an add of an unconfigured APID was made on a collector that holds
\* a primary and a packed accumulator
C5_Witness ==
    /\ call.op = "add"
    /\ call.apid \notin ConfiguredApids
    /\ DOMAIN primary # {}
    /\ DOMAIN packed # {}

\* C6: an add of a packet of a configured APID whose time is before the satellite's
\* base time returns the error InvalidGranuleStart
C6_BeforeBaseTimeIsError ==
    (call.op = "add" /\ call.apid \in ConfiguredApids /\ call.time < sat.base_time)
        => call.ret = RetErr("InvalidGranuleStart")

\* Whether every group emitted by an add holds, for every packed accumulator of the
\* table whose granule overlaps the primary granule [B, B + L) of the group, an Rdr
\* of that key with all the packets the accumulator has by now
EmittedGroupsComplete ==
    \A n \in DOMAIN emitted :
        emitted[n].by = "add" =>
            LET group == emitted[n].rdrs
                B == group[1].begin_time_iet
                L == products[group[1].product_id].gran_len
            IN  \A k \in DOMAIN packed :
                    (k[2] < B + L /\ k[2] + products[k[1]].gran_len > B)
                        => \E i \in 2..Len(group) :
                              /\ group[i].product_id = k[1]
                              /\ group[i].begin_time_iet = k[2]
                              /\ group[i].data.ap_storage = packed[k].ap_storage

\* Whether no packed product has a longer granule than a primary product
PackedNotLonger ==
    \A p \in DOMAIN primary_ids : \A q \in packed_ids :
        products[q].gran_len <= products[p].gran_len

\* C7 as stated: when every product's packets come in non-decreasing time order,
\* no packed granule is longer than the primary one and no packed packet comes
\* after a primary packet that is later by the primary granule length L or more,
\* every group emitted by an add holds every packed packet of the input whose
\* granule overlaps the primary granule
C7_GroupCompleteLagLen ==
    (hist.ordered /\ PackedNotLonger /\ hist.lag_len) => EmittedGroupsComplete

\* C7 with the lag that suffices: the same with no packed packet coming after a
\* primary packet that is later by L - Lp or more, Lp the packed granule length
C7_GroupCompleteLagDiff ==
    (hist.ordered /\ PackedNotLonger /\ hist.lag_diff) => EmittedGroupsComplete

\* C7 witness: an add emitted a group with a packed granule that starts before the
\* primary granule, and a packed packet was stored after that add
C7_Witness ==
    /\ hist.ordered /\ PackedNotLonger /\ hist.lag_diff
    /\ call.op = "add"
    /\ LookupProduct(call.apid) \in packed_ids
    /\ call.ret.kind = "none"
    /\ \E n \in DOMAIN emitted :
          /\ emitted[n].by = "add"
          /\ \E i \in 2..Len(emitted[n].rdrs) :
                emitted[n].rdrs[i].begin_time_iet < emitted[n].rdrs[1].begin_time_iet

\* The add calls made with packets of a primary product, in the order of the calls
IsPrimaryFed(e) == e.apid \in ConfiguredApids /\ ids[e.apid] \in DOMAIN primary_ids
FedPrimary == SelectSeq(fed, IsPrimaryFed)

\* The granule window of the i-th primary packet fed, counted from the window of
\* the first one
FedWindow(i) ==
    LET L == products[ids[FedPrimary[1].apid]].gran_len
    IN  (GranuleOf(FedPrimary[i].time, L) - GranuleOf(FedPrimary[1].time, L)) \div L

\* The number of primary packets fed in window w
FedIn(w) == Cardinality({i \in DOMAIN FedPrimary : FedWindow(i) = w})

\* Whether the primary packets fed so far are packets of one product in one granule
\* window, then packets of the next window, then packets of the one after it
WindowsFed ==
    /\ FedPrimary # <<>>
    /\ \A i \in DOMAIN FedPrimary :
          /\ ids[FedPrimary[i].apid] = ids[FedPrimary[1].apid]
          /\ FedPrimary[i].time >= sat.base_time
    /\ \A i \in DOMAIN FedPrimary :
          /\ FedWindow(i) \in 0..2
          /\ \A k \in DOMAIN FedPrimary : i < k => FedWindow(i) <= FedWindow(k)
    /\ FedIn(2) >= 1 => FedIn(1) >= 1

\* The groups emitted by add calls so far
EmittedByAdd == SelectSeq(emitted, LAMBDA e : e.by = "add")

\* Whether, after n primary packets in one window, m in the next and j in the
\* third, the first granule is emitted by the add call that opens the third window
\* and holds exactly the n packets
FirstGranuleEmitted(n, m, j) ==
    /\ j = 0 => EmittedByAdd = <<>>
    /\ j >= 1 =>
          /\ Len(EmittedByAdd) = 1
          /\ LET rdr == EmittedByAdd[1].rdrs[1]
                 parsed == CommonRdrFromBytes(Compile(rdr.data))
             IN  /\ rdr.begin_time_iet
                       = GranuleOf(FedPrimary[1].time, products[rdr.product_id].gran_len)
                 /\ Len(parsed.packet_trackers) = n
                 /\ \A i \in 1..n :
                       parsed.packet_trackers[i].obs_time = FedPrimary[i].time
    /\ (j = 1 /\ call.op = "add" /\ IsPrimaryFed(call)) => call.ret.kind = "some"

\* The num_apids field of the header of the first emitted granule
FirstGranuleNumApids ==
    StaticHeaderFromBytes(Slice(Compile(EmittedByAdd[1].rdrs[1].data), 0, 72)).num_apids

\* C13 as stated: after N primary packets in one granule window and packets from the
\* next two windows, the first granule is emitted by the add call that opens the
\* third window with exactly the N packets, and its num_apids is the number of
\* distinct APIDs seen among them
C13_FirstGranuleApidsSeen ==
    WindowsFed =>
        /\ FirstGranuleEmitted(FedIn(0), FedIn(1), FedIn(2))
        /\ FedIn(2) >= 1 => FirstGranuleNumApids
                                = Cardinality({FedPrimary[i].apid : i \in 1..FedIn(0)})

\* C13 with the header as the code fills it: the same, with num_apids the number
\* of APIDs configured for the product, whether seen or not
C13_FirstGranuleApidsConfigured ==
    WindowsFed =>
        /\ FirstGranuleEmitted(FedIn(0), FedIn(1), FedIn(2))
        /\ FedIn(2) >= 1 => FirstGranuleNumApids
                                = Len(products[ids[FedPrimary[1].apid]].apids)

\* C13 witness: two primary packets in the first window, one in the second, and the
\* add of the first packet of the third window has just returned the first granule
C13_Witness ==
    /\ WindowsFed
    /\ FedIn(0) = 2 /\ FedIn(1) = 1 /\ FedIn(2) = 1
    /\ call.op = "add"
    /\ call.ret.kind = "some"
    /\ Len(call.ret.groups[1][1].data.ap_storage) = 2

----------------------------------------------------------------------------
(* Properties of one accumulator, checked under SpecRdr *)

\* The positions in ap_storage of the packets of one APID, and of all APIDs in
\* ascending order of the APID; the packets and the payload bytes in those orders
IndicesOf(apid) ==
    SortedSeq({i \in DOMAIN rdrdata.ap_storage : rdrdata.ap_storage[i].pkt.apid = apid})
SortedApids == SortedSeq(DOMAIN rdrdata.apid_list)
IndicesByApid == Flatten([i \in DOMAIN SortedApids |-> IndicesOf(SortedApids[i])])
PacketsByApid == [n \in DOMAIN IndicesByApid |-> rdrdata.ap_storage[IndicesByApid[n]]]
PayloadBytes == Flatten([i \in DOMAIN rdrdata.ap_storage |-> rdrdata.ap_storage[i].pkt.data])
ReceivedTotal ==
    SumSeq([i \in DOMAIN SortedApids |-> rdrdata.apid_list[SortedApids[i]].pkts_received])

\* C8: after accepted add_packet calls the compiled header has apid_list_offset 72,
\* pkt_tracker_offset 72 + 32 * num_apids, ap_storage_offset = pkt_tracker_offset
\* + 24 * (the sum of pkts_received over the APIDs) and next_pkt_position = the sum
\* of the sizes of the stored packets
C8_HeaderOffsets ==
    all_accepted =>
        LET h == StaticHeaderFromBytes(Slice(Compile(rdrdata), 0, 72))
        IN  /\ h.apid_list_offset = 72
            /\ h.num_apids = Cardinality(DOMAIN rdrdata.apid_list)
            /\ h.pkt_tracker_offset = 72 + 32 * h.num_apids
            /\ h.ap_storage_offset = h.pkt_tracker_offset + 24 * ReceivedTotal
            /\ h.next_pkt_position = Len(PayloadBytes)

\* C8 witness: every call was accepted and packets of two APIDs are stored
C8_Witness ==
    /\ all_accepted
    /\ Len(rdrdata.ap_storage) >= 2
    /\ Cardinality({rdrdata.ap_storage[i].pkt.apid : i \in DOMAIN rdrdata.ap_storage}) = 2

\* C9: after accepted add_packet calls, for every tracker of the compiled bytes the
\* size bytes at ap_storage_offset + offset are the payload of the packet the
\* tracker was created for, also when the packets of several APIDs are interleaved
C9_TrackerAddressesPayload ==
    all_accepted =>
        LET bytes == Compile(rdrdata)
            rdr == CommonRdrFromBytes(bytes)
            base == rdr.static_header.ap_storage_offset
        IN  /\ Len(rdr.packet_trackers) = Len(PacketsByApid)
            /\ \A n \in DOMAIN rdr.packet_trackers :
                  LET t == rdr.packet_trackers[n]
                  IN  /\ t.sequence_number = PacketsByApid[n].pkt.sequence_id
                      /\ t.size = Len(PacketsByApid[n].pkt.data)
                      /\ Slice(bytes, base + t.offset, base + t.offset + t.size)
                             = PacketsByApid[n].pkt.data

\* C9 witness: every call was accepted and a packet of the higher APID was stored
\* between two packets of the lower one
C9_Witness ==
    /\ all_accepted
    /\ Len(rdrdata.ap_storage) = 3
    /\ rdrdata.ap_storage[1].pkt.apid = 821
    /\ rdrdata.ap_storage[2].pkt.apid = 826
    /\ rdrdata.ap_storage[3].pkt.apid = 821

\* C10: for every sequence of accepted packets, parsing the compiled bytes gives the
\* accumulator's header with the computed offsets, its ApidInfo records in ascending
\* order of the APID with the counts as accumulated, the trackers of the APIDs in
\* that order and each APID's in insertion order, and a payload region that is the
\* payloads of the packets in insertion order
C10_RoundTrip ==
    all_accepted =>
        LET bytes == Compile(rdrdata)
            rdr == CommonRdrFromBytes(bytes)
            n == Cardinality(DOMAIN rdrdata.apid_list)
        IN  /\ rdr.static_header =
                  [rdrdata.header EXCEPT
                      !.pkt_tracker_offset = 72 + 32 * n,
                      !.ap_storage_offset = 72 + 32 * n + 24 * Len(rdrdata.ap_storage),
                      !.next_pkt_position = Len(PayloadBytes)]
            /\ Len(rdr.apid_list) = n
            /\ \A i \in DOMAIN rdr.apid_list :
                  LET info == rdrdata.apid_list[SortedApids[i]]
                  IN  /\ rdr.apid_list[i].name = info.name
                      /\ rdr.apid_list[i].value = SortedApids[i]
                      /\ rdr.apid_list[i].pkts_reserved = info.pkts_reserved
                      /\ rdr.apid_list[i].pkts_received = info.pkts_received
                      /\ info.pkts_received = Len(IndicesOf(SortedApids[i]))
            /\ rdr.packet_trackers =
                  [i \in DOMAIN PacketsByApid |->
                      [ obs_time |-> PacketsByApid[i].iet,
                        sequence_number |-> PacketsByApid[i].pkt.sequence_id,
                        size |-> Len(PacketsByApid[i].pkt.data),
                        offset |-> Len(Flatten([j \in 1..(IndicesByApid[i] - 1) |->
                                                   rdrdata.ap_storage[j].pkt.data])),
                        fill_percent |-> 0 ]]
            /\ Slice(bytes, rdr.static_header.ap_storage_offset, Len(bytes)) = PayloadBytes

\* C10 witness: every call was accepted and three packets of two APIDs are stored,
\* the first of them of the higher APID
C10_Witness ==
    /\ all_accepted
    /\ Len(rdrdata.ap_storage) = 3
    /\ rdrdata.ap_storage[1].pkt.apid = 826
    /\ \E i \in 2..3 : rdrdata.ap_storage[i].pkt.apid = 821

\* What a dump in APID-major order writes: the payloads of the stored packets, APID
\* by APID in the order of the APID list and in insertion order within one APID
DumpExpected ==
    [ status |-> "ok",
      out |-> Flatten([n \in DOMAIN PacketsByApid |-> PacketsByApid[n].pkt.data]) ]

\* C14: dumping the blob compile produces writes exactly the payloads of all
\* accumulated packets, each once, APID by APID in the order of the APID list and
\* in insertion order within one APID
C14_DumpApidMajor == Dump(Compile(rdrdata)) = DumpExpected

\* C14 for an accumulator none of whose add_packet calls failed: the dump is as
\* C14 states
C14_DumpOfAcceptedPackets == all_accepted => Dump(Compile(rdrdata)) = DumpExpected

\* C14 witness: three accepted packets of APIDs 826, 821, 826, so that the dump is
\* not in the order of arrival
C14_Witness ==
    /\ all_accepted
    /\ Len(rdrdata.ap_storage) = 3
    /\ rdrdata.ap_storage[1].pkt.apid = 826
    /\ rdrdata.ap_storage[2].pkt.apid = 821
    /\ rdrdata.ap_storage[3].pkt.apid = 826
    /\ Dump(Compile(rdrdata)).out # PayloadBytes
    /\ Len(Dump(Compile(rdrdata)).out) = Len(PayloadBytes)

----------------------------------------------------------------------------
(* Properties of the functions without state, checked under SpecFn *)

\* C11: for every StaticHeader, ApidInfo and PacketTracker whose texts fit their
\* fields and hold no NUL, from_bytes(as_bytes(x)) = x in every field, fill_percent
\* included, and as_bytes gives 72, 32 and 24 bytes
C11_CodecRoundTrip ==
    /\ fcall.fn \in {"StaticHeader", "ApidInfo", "PacketTracker"}
          => fcall.ret.back = fcall.arg
    /\ fcall.fn = "StaticHeader" => Len(fcall.ret.bytes) = 72
    /\ fcall.fn = "ApidInfo" => Len(fcall.ret.bytes) = 32
    /\ fcall.fn = "PacketTracker" => Len(fcall.ret.bytes) = 24

\* C11 witness: a tracker with a fill_percent other than zero and a negative
\* sequence number went through as_bytes and from_bytes
C11_Witness ==
    /\ fcall.fn = "PacketTracker"
    /\ fcall.arg.fill_percent = I32_MAX
    /\ fcall.arg.sequence_number = I32_MIN
    /\ fcall.ret.back.fill_percent = I32_MAX

\* C12: for every base time b, granule length L > 0, k >= 0 and 0 <= d < L,
\* get_granule_start(b + k*L + d, L, b) = b + k*L: the result is aligned to b in
\* steps of L and lies in (pkt_iet - L, pkt_iet]
C12_GranuleStartAligned ==
    fcall.fn = "get_granule_start" =>
        LET a == fcall.arg
            g == fcall.ret
        IN  /\ g = a.base_time + a.k * a.gran_len
            /\ (g - a.base_time) % a.gran_len = 0
            /\ g <= a.iet
            /\ a.iet < g + a.gran_len

\* C12 witness: a packet time inside the third granule, with a base time that is
\* no multiple of the granule length
C12_Witness ==
    /\ fcall.fn = "get_granule_start"
    /\ fcall.arg.k = 2
    /\ fcall.arg.d > 0
    /\ fcall.arg.base_time % fcall.arg.gran_len # 0
    /\ fcall.ret = fcall.arg.iet - fcall.arg.d

----------------------------------------------------------------------------
(* Properties of create_rdr, under SpecCreate *)

\* The groups finish returned that the producer has still to send
PendingEntries == [i \in DOMAIN producer.pending |->
                       [by |-> "finish", rdrs |-> producer.pending[i]]]
\* The groups sent so far, in the order sent
SentGroups == [i \in DOMAIN sent |-> sent[i].rdrs]
\* The groups of the write attempts so far, in the order attempted
WrittenGroups == [i \in DOMAIN consumer.writes |-> consumer.writes[i].rdrs]

\* C15: the groups sent so far, followed by the groups of finish still to send, are
\* exactly the groups add and finish returned, in the order returned (each is sent
\* once); every group from add is sent before any group from finish; the consumer
\* has received, in the order sent, the groups that have left the channel, and has
\* made one write attempt for each; when both threads have ended every returned
\* group has been attempted
C15_SentOnceInOrder ==
    /\ sent \o PendingEntries = emitted
    /\ \A i \in DOMAIN sent : \A j \in DOMAIN sent :
          (i < j /\ sent[j].by = "add") => sent[i].by = "add"
    /\ consumer.received \o chan.queue = SentGroups
    /\ WrittenGroups = consumer.received
    /\ (producer.pc = "done" /\ consumer.pc = "done") =>
          WrittenGroups = [i \in DOMAIN emitted |-> emitted[i].rdrs]

\* C15 witness: both threads have ended after a group from add and a group from
\* finish were sent, received and attempted
C15_Witness ==
    /\ producer.pc = "done" /\ consumer.pc = "done"
    /\ \E i \in DOMAIN sent : sent[i].by = "add"
    /\ \E i \in DOMAIN sent : sent[i].by = "finish"
    /\ Len(consumer.writes) = Len(sent)

\* The packets fed to the collector so far, followed by the packets of the input
\* the producer has still to feed
FedAndRest == fed \o [i \in DOMAIN producer.input |->
                        [apid |-> producer.input[i][1], time |-> producer.input[i][2]]]

C17_FailedWriteStopsNothing ==
    [][ /\ ( /\ Len(consumer'.writes) > Len(consumer.writes)
             /\ ~consumer'.writes[Len(consumer'.writes)].ok )
           => ( /\ consumer'.pc = "recv"
                /\ producer' = producer
                /\ chan'.tx_open = chan.tx_open )
        /\ consumer'.pc = "done"
           => ( /\ chan'.queue = <<>>
                /\ ~chan'.tx_open
                /\ consumer'.received = SentGroups' ) ]_vars

\* C17 witness: a write failed, a later group was attempted, and both threads ended
C17_Witness ==
    /\ producer.pc = "done" /\ consumer.pc = "done"
    /\ \E i \in DOMAIN consumer.writes : \E j \in DOMAIN consumer.writes :
          i < j /\ ~consumer.writes[i].ok /\ consumer.writes[j].ok

----------------------------------------------------------------------------
(* Properties of the configuration, under SpecFn *)

\* The invariant of a configuration: every identifier in a packed_with names a
\* configured product
PackedWithConfigured(config) ==
    \A i \in DOMAIN config.rdrs : \A j \in DOMAIN config.rdrs[i].packed_with :
        \E k \in DOMAIN config.products :
            config.products[k].product_id = config.rdrs[i].packed_with[j]

----------------------------------------------------------------------------
(* Properties of add_packet and compile, under SpecRdr *)

\* The trackers an accumulator holds for an APID, none if it has no list yet
TrackersOf(data, apid) ==
    IF apid \in DOMAIN data.trackers THEN data.trackers[apid] ELSE <<>>

\* What a successful add_packet(pkt_time, pkt) changes, from `old` to `new`
AddPacketEffects(old, new, pkt_time, pkt) ==
    /\ DOMAIN new.apid_list = DOMAIN old.apid_list
    /\ new.apid_list[pkt.apid].pkts_reserved = old.apid_list[pkt.apid].pkts_reserved + 1
    /\ new.apid_list[pkt.apid].pkts_received = old.apid_list[pkt.apid].pkts_received + 1
    /\ \A a \in DOMAIN old.apid_list \ {pkt.apid} : new.apid_list[a] = old.apid_list[a]
    /\ TrackersOf(new, pkt.apid) =
          Append(TrackersOf(old, pkt.apid),
                 [ obs_time |-> pkt_time,
                   sequence_number |-> pkt.sequence_id,
                   size |-> Len(pkt.data),
                   offset |-> old.ap_storage_offset,
                   fill_percent |-> 0 ])
    /\ \A a \in DOMAIN old.apid_list \ {pkt.apid} : TrackersOf(new, a) = TrackersOf(old, a)
    /\ new.ap_storage = Append(old.ap_storage, [iet |-> pkt_time, pkt |-> pkt])
    /\ new.ap_storage_offset = old.ap_storage_offset + Len(pkt.data)

\* C19: every step that is a successful add_packet(pkt_time, pkt) adds 1 to
\* pkts_reserved and pkts_received of the packet's APID and leaves the other
\* ApidInfos alone, appends to the APID's trackers one tracker with the packet's
\* time, sequence id and payload length, the running offset before the call and
\* fill_percent 0, appends the packet to the storage sequence and advances the
\* running offset by the payload length
C19_AddPacketEffects ==
    [][ \A pkt_time \in RdrTimes : \A pkt \in RdrPackets :
          ( /\ npkts' = npkts + 1
            /\ add_packet(rdrdata, pkt_time, pkt).err = ""
            /\ rdrdata' = add_packet(rdrdata, pkt_time, pkt).data )
          => AddPacketEffects(rdrdata, rdrdata', pkt_time, pkt) ]_vars

\* C19 witness: three accepted packets, the third of the APID of the first and
\* with a tracker offset that counts the packet of the other APID in between
C19_Witness ==
    /\ npkts = 3 /\ all_accepted
    /\ Len(rdrdata.ap_storage) = 3
    /\ rdrdata.ap_storage[2].pkt.apid = 821
    /\ rdrdata.apid_list[826].pkts_received = 2
    /\ Len(TrackersOf(rdrdata, 826)) = 2
    /\ rdrdata.trackers[826][2].offset =
          Len(rdrdata.ap_storage[1].pkt.data) + Len(rdrdata.ap_storage[2].pkt.data)
    /\ rdrdata.ap_storage_offset =
          rdrdata.trackers[826][2].offset + rdrdata.trackers[826][2].size

\* Whether the compiled bytes of the accumulator, parsed, hold the ApidInfo records
\* in ascending order of the APID, each with pkt_tracker_start_idx the sum of
\* pkts_received of the records before it, and the trackers of each APID at the
\* table indices start_idx .. start_idx + pkts_received - 1 in insertion order
CompiledLayout ==
    LET rdr == CommonRdrFromBytes(Compile(rdrdata))
        infos == rdr.apid_list
    IN  /\ Len(infos) = Cardinality(DOMAIN rdrdata.apid_list)
        /\ \A i \in DOMAIN infos : \A j \in DOMAIN infos :
              i < j => infos[i].value < infos[j].value
        /\ \A i \in DOMAIN infos :
              /\ infos[i].value \in DOMAIN rdrdata.apid_list
              /\ infos[i].pkt_tracker_start_idx =
                    SumSeq([k \in 1..(i - 1) |-> infos[k].pkts_received])
              /\ infos[i].pkts_received >= 0
              /\ \A k \in 1..infos[i].pkts_received :
                    /\ infos[i].pkt_tracker_start_idx + k \in DOMAIN rdr.packet_trackers
                    /\ k \in DOMAIN TrackersOf(rdrdata, infos[i].value)
                    /\ rdr.packet_trackers[infos[i].pkt_tracker_start_idx + k] =
                          TrackersOf(rdrdata, infos[i].value)[k]

\* C20: in compile's output the ApidInfo records are in ascending APID order, each
\* pkt_tracker_start_idx is the sum of pkts_received of the APIDs before it, also of
\* those without a packet, and the trackers of an APID occupy the table indices
\* [start_idx, start_idx + pkts_received) in the order its packets were added
C20_CompileLayout == CompiledLayout

\* C20 for an accumulator whose add_packet calls all returned Ok
C20_CompileLayoutOfAccepted == all_accepted => CompiledLayout

\* C20 witness: accepted packets of APIDs 826, 821, 826 compile to the trackers of
\* 821 at index 0 and those of 826 at indices 1 and 2, behind APID 825 without a
\* packet
C20_Witness ==
    /\ all_accepted
    /\ Len(rdrdata.ap_storage) = 3
    /\ rdrdata.ap_storage[1].pkt.apid = 826
    /\ rdrdata.ap_storage[2].pkt.apid = 821
    /\ rdrdata.ap_storage[3].pkt.apid = 826
    /\ CompiledLayout
    /\ LET infos == CommonRdrFromBytes(Compile(rdrdata)).apid_list
       IN  /\ infos[2].value = 825 /\ infos[2].pkts_received = 0
           /\ infos[2].pkt_tracker_start_idx = 1
           /\ infos[3].value = 826 /\ infos[3].pkt_tracker_start_idx = 1

----------------------------------------------------------------------------
(* Further properties of the collector, under Spec *)

\* The APIDs whose product is a packed product and no primary product
PackedApids ==
    {a \in DOMAIN ids : ids[a] \notin DOMAIN primary_ids /\ ids[a] \in packed_ids}

\* The packets an accumulator of a table holds, none if the key is absent
StorageOf(tbl, key) == IF key \in DOMAIN tbl THEN tbl[key].ap_storage ELSE <<>>

\* C21: no step removes a key from the packed table; an add for a packet of a packed
\* product returns no output, leaves the primary table unchanged, and appends the
\* packet to the packed accumulator under (product, granule start), which is created
\* if absent, leaving the other packed accumulators as they were
C21_PackedAddOnlyGrows ==
    [][ /\ DOMAIN packed \subseteq DOMAIN packed'
        /\ (nadds' # nadds /\ call'.apid \in PackedApids) =>
              LET pid == ids[call'.apid]
                  key == <<pid, GranuleOf(call'.time, products[pid].gran_len)>>
                  pkt == CollectorPacket(call'.apid, nadds)
              IN  /\ call'.ret = RetNone
                  /\ primary' = primary
                  /\ DOMAIN packed' = DOMAIN packed \cup {key}
                  /\ StorageOf(packed', key) =
                        Append(StorageOf(packed, key), [iet |-> call'.time, pkt |-> pkt])
                  /\ \A k \in DOMAIN packed \ {key} : packed'[k] = packed[k] ]_vars

\* C21 witness: one packed granule, still in the packed table, was delivered with
\* two different primary granules
C21_Witness ==
    \E i \in DOMAIN emitted : \E j \in DOMAIN emitted :
        /\ i < j
        /\ emitted[i].rdrs[1].begin_time_iet # emitted[j].rdrs[1].begin_time_iet
        /\ \E a \in 2..Len(emitted[i].rdrs) : \E b \in 2..Len(emitted[j].rdrs) :
              /\ emitted[i].rdrs[a].product_id = emitted[j].rdrs[b].product_id
              /\ emitted[i].rdrs[a].begin_time_iet = emitted[j].rdrs[b].begin_time_iet
              /\ <<emitted[i].rdrs[a].product_id, emitted[i].rdrs[a].begin_time_iet>>
                    \in DOMAIN packed

----------------------------------------------------------------------------
(* Properties of the dumper, under SpecFn *)

\* The bytes in the storage that a tracker addresses
TrackedBytes(t) == SubSeq(DumpStorage, t.offset + 1, t.offset + t.size)

\* The bytes of the trackers of a list whose offset is not -1, in the list's order
CopyOfFilled(ts) ==
    Flatten([i \in DOMAIN ts |->
        IF ts[i].offset = NO_PACKETS_RECEIVED THEN <<>> ELSE TrackedBytes(ts[i])])

\* The bytes of the trackers of a list before its first tracker with offset -1
CopyUntilEmpty(ts) ==
    Flatten([i \in DOMAIN ts |->
        IF \E j \in 1..i : ts[j].offset = NO_PACKETS_RECEIVED
        THEN <<>> ELSE TrackedBytes(ts[i])])

\* C22: for each ApidInfo the dumper visits pkts_received trackers from
\* pkt_tracker_offset + pkt_tracker_start_idx * 24 on and copies, for every one of
\* them whose offset is not -1, its `size` bytes at ap_storage_offset + offset; a
\* tracker with offset -1 is skipped and the later trackers of the APID are copied
C22_DumpSkipsEmptyTrackers ==
    fcall.fn = "dump" =>
        /\ fcall.ret.status = "ok"
        /\ fcall.ret.out = CopyOfFilled(fcall.arg[1]) \o CopyOfFilled(fcall.arg[2])

\* What the dumper writes: for each ApidInfo the bytes of its trackers up to the
\* first one with offset -1, where the loop over the APID's trackers ends
C22_DumpStopsAtEmptyTracker ==
    fcall.fn = "dump" =>
        /\ fcall.ret.status = "ok"
        /\ fcall.ret.out = CopyUntilEmpty(fcall.arg[1]) \o CopyUntilEmpty(fcall.arg[2])

\* C22 witness: the first APID's trackers are one with offset -1 and then one of a
\* packet; the packet is not in the output, the packet of the second APID is
C22_Witness ==
    /\ fcall.fn = "dump"
    /\ Len(fcall.arg[1]) = 2
    /\ fcall.arg[1][1].offset = NO_PACKETS_RECEIVED
    /\ fcall.arg[1][2].offset = 1
    /\ Len(fcall.arg[2]) = 1 /\ fcall.arg[2][1].offset = 3
    /\ fcall.ret.out = <<195>>

----------------------------------------------------------------------------
(* Properties of the aggregate, under SpecFn *)

\* Whether the attributes `aggr` span the granules `rdrs`: the beginning is that of
\* a granule with the smallest begin time, the ending that of a granule with the
\* largest end time, and the number is the number of granules
SpansGranules(aggr, rdrs) ==
    /\ \E i \in DOMAIN rdrs :
          /\ \A j \in DOMAIN rdrs : rdrs[i].begin_time_iet <= rdrs[j].begin_time_iet
          /\ aggr.begin_date = rdrs[i].begin_date
          /\ aggr.begin_time = rdrs[i].begin_time
          /\ aggr.begin_granule_id = rdrs[i].id
    /\ \E i \in DOMAIN rdrs :
          /\ \A j \in DOMAIN rdrs : rdrs[i].end_time_iet >= rdrs[j].end_time_iet
          /\ aggr.end_date = rdrs[i].end_date
          /\ aggr.end_time = rdrs[i].end_time
          /\ aggr.end_granule_id = rdrs[i].id
    /\ aggr.num_granules = Len(rdrs)

\* C23: the aggregate of the granules of one short name begins with the date, time
\* and granule id of the granule with the smallest begin time, ends with those of
\* the granule with the largest end time, and counts the granules, both as
\* from_rdrs computes it and as write_aggr_dataset writes it to the file
C23_AggregateSpansGranules ==
    fcall.fn = "aggr" =>
        /\ SpansGranules(fcall.ret.meta, fcall.arg)
        /\ SpansGranules(fcall.ret.written, fcall.arg)

\* The part of C23 that holds: the aggregate AggrMeta::from_rdrs computes
C23_FromRdrsSpansGranules ==
    fcall.fn = "aggr" => SpansGranules(fcall.ret.meta, fcall.arg)

\* C23 witness: three granules given in the order second, first, third; from_rdrs
\* begins with the first and ends with the third, write_aggr_dataset begins with
\* the third
C23_Witness ==
    /\ fcall.fn = "aggr"
    /\ Len(fcall.arg) = 3
    /\ fcall.arg[2].time < fcall.arg[1].time
    /\ fcall.arg[1].time < fcall.arg[3].time
    /\ fcall.ret.meta.begin_granule_id = fcall.arg[2].id
    /\ fcall.ret.meta.end_granule_id = fcall.arg[3].id
    /\ fcall.ret.written.begin_granule_id = fcall.arg[3].id

----------------------------------------------------------------------------
(* Termination of create_rdr, under SpecCreateFair *)

\* Both threads have ended and every group sent was received
Drained ==
    /\ consumer.pc = "done"
    /\ chan.queue = <<>> /\ ~chan.tx_open
    /\ consumer.received = SentGroups

\* C24: create_rdr terminates: the producer ends after sending the groups of finish
\* and dropping the sender, the consumer drains the channel and ends, and no group
\* sent is left unreceived
C24_Terminates ==
    <>(producer.pc = "done" /\ call.op = "finish" /\ producer.pending = <<>> /\ Drained)

\* What holds in every build: the producer ends, after finish or by a panic in add
\* that drops the sender, and the consumer drains the channel and ends
C24_TerminatesOrPanics ==
    <>(producer.pc \in {"done", "panicked"} /\ Drained)

\* C24 in the build without overflow checks, where add does not panic
C24_TerminatesWithoutChecks ==
    overflow_checks \/ C24_Terminates

\* C24 witness: the whole input was fed, the producer has ended after finish, and
\* the consumer has received the groups sent and ended
C24_Witness ==
    /\ producer.pc = "done" /\ call.op = "finish"
    /\ Len(fed) = MaxInput
    /\ sent # <<>>
    /\ Drained

----------------------------------------------------------------------------
(* Conservation of the primary packets, under Spec *)

\* The places a primary packet can be: the i-th packet of the accumulator under a key
\* of the primary table, or of the primary granule of the n-th emitted group
InTable == {<<k, i>> \in (DOMAIN primary) \X (1..MaxAdds) : i \in DOMAIN primary[k].ap_storage}
InEmitted ==
    {<<n, i>> \in (DOMAIN emitted) \X (1..MaxAdds) :
        i \in DOMAIN emitted[n].rdrs[1].data.ap_storage}

\* How often the packet of the q-th add call (its sequence id is q) is held in the
\* table, and in the emitted primary granules
CountInTable(q) ==
    Cardinality({p \in InTable : primary[p[1]].ap_storage[p[2]].pkt.sequence_id = q})
CountInEmitted(q) ==
    Cardinality({p \in InEmitted :
        emitted[p[1]].rdrs[1].data.ap_storage[p[2]].pkt.sequence_id = q})

\* C25: a packet is in the primary table or in an emitted primary granule from the
\* add call that accepted it for a primary product on, and never in two places: add
\* and finish only move packets from the table to an emitted granule; after finish
\* the primary table is empty, so every accepted packet is in exactly one emitted
\* primary granule
C25_PrimaryPacketsConserved ==
    [][ /\ \A q \in 0..MaxAdds :
              /\ CountInTable(q)' + CountInEmitted(q)' =
                    IF /\ nadds' # nadds /\ q = nadds
                       /\ LookupProduct(call'.apid) \in DOMAIN primary_ids
                       /\ call'.ret.kind \in {"none", "some"}
                    THEN 1
                    ELSE CountInTable(q) + CountInEmitted(q)
              /\ CountInTable(q)' + CountInEmitted(q)' <= 1
              /\ CountInEmitted(q)' >= CountInEmitted(q)
        /\ phase' = "finished" =>
              /\ primary' = EmptyMap
              /\ \A q \in 0..MaxAdds : CountInTable(q)' = 0 ]_vars

\* C25 witness: after finish, three accepted primary packets are each in one emitted
\* granule, two of them together in a granule emitted by add
C25_Witness ==
    /\ phase = "finished"
    /\ primary = EmptyMap
    /\ Cardinality({q \in 0..MaxAdds : CountInEmitted(q) = 1}) >= 3
    /\ \E n \in DOMAIN emitted :
          /\ emitted[n].by = "add"
          /\ Len(emitted[n].rdrs[1].data.ap_storage) = 2
    /\ \E n \in DOMAIN emitted : emitted[n].by = "finish"

----------------------------------------------------------------------------
(* Properties of the collector of two primary products, under SpecMulti *)

\* C26: every packed granule in a group emitted for a primary product belongs to a
\* product listed in packed_with of that primary's RdrSpec
C26_PackedOfOwnPrimary ==
    \A n \in DOMAIN emitted : \A i \in 2..Len(emitted[n].rdrs) :
        emitted[n].rdrs[i].product_id \in Range(primary_ids[emitted[n].rdrs[1].product_id])

\* What holds instead: every packed granule in a group belongs to a product listed
\* in packed_with of some RdrSpec
C26_PackedOfSomePrimary ==
    \A n \in DOMAIN emitted : \A i \in 2..Len(emitted[n].rdrs) :
        emitted[n].rdrs[i].product_id \in packed_ids

\* C26 witness: the group emitted for RVIRS, which is packed with RNSCA, holds a
\* granule of RTNSC, which is packed with RCRIS only
C26_Witness ==
    \E n \in DOMAIN emitted :
        /\ emitted[n].rdrs[1].product_id = "RVIRS"
        /\ "RTNSC" \notin Range(primary_ids["RVIRS"])
        /\ \E i \in 2..Len(emitted[n].rdrs) : emitted[n].rdrs[i].product_id = "RTNSC"

----------------------------------------------------------------------------
(* The packed granules of a group, under Spec *)

\* C27: in every emitted group no packed accumulator (product, granule start) is
\* there more than once, and every packed granule of the group overlaps the primary
\* granule by the granule length of its own product
C27_PackedOnceByOwnLength ==
    \A n \in DOMAIN emitted :
        LET group == emitted[n].rdrs
            B == group[1].begin_time_iet
            L == products[group[1].product_id].gran_len
        IN  /\ \A i \in 2..Len(group) : \A j \in 2..Len(group) :
                  ( /\ group[i].product_id = group[j].product_id
                    /\ group[i].begin_time_iet = group[j].begin_time_iet ) => i = j
            /\ \A i \in 2..Len(group) :
                  /\ B - products[group[i].product_id].gran_len < group[i].begin_time_iet
                  /\ group[i].begin_time_iet < B + L

\* What holds instead: every packed granule of a group overlaps the primary granule
\* by the granule length of some packed product, and is there at most once for
\* each packed product configured
C27_PackedByAnyLength ==
    \A n \in DOMAIN emitted :
        LET group == emitted[n].rdrs
            B == group[1].begin_time_iet
            L == products[group[1].product_id].gran_len
        IN  \A i \in 2..Len(group) :
               /\ \E p \in packed_ids :
                     /\ B - products[p].gran_len < group[i].begin_time_iet
                     /\ group[i].begin_time_iet < B + L
               /\ Cardinality({j \in 2..Len(group) :
                     /\ group[j].product_id = group[i].product_id
                     /\ group[j].begin_time_iet = group[i].begin_time_iet})
                  <= Cardinality(packed_ids)

\* C27 witness: a group with the same packed granule twice
C27_Witness ==
    \E n \in DOMAIN emitted :
        \E i \in 2..Len(emitted[n].rdrs) : \E j \in 2..Len(emitted[n].rdrs) :
            /\ i < j
            /\ emitted[n].rdrs[i].product_id = emitted[n].rdrs[j].product_id
            /\ emitted[n].rdrs[i].begin_time_iet = emitted[n].rdrs[j].begin_time_iet
            /\ Cardinality(packed_ids) = 2

----------------------------------------------------------------------------
(* The counters of the accumulator, under SpecRdr *)

\* Whether the counters of an accumulator agree with what it stores
CountsAgree(data) ==
    /\ \A a \in DOMAIN data.apid_list :
          /\ data.apid_list[a].pkts_received = data.apid_list[a].pkts_reserved
          /\ data.apid_list[a].pkts_received = Len(TrackersOf(data, a))
    /\ SumSeq([i \in DOMAIN SortedSeq(DOMAIN data.apid_list) |->
                  data.apid_list[SortedSeq(DOMAIN data.apid_list)[i]].pkts_received])
          = Len(data.ap_storage)
    /\ data.ap_storage_offset =
          Len(Flatten([i \in DOMAIN data.ap_storage |-> data.ap_storage[i].pkt.data]))

C28_CountsAgreeWhileAccepted ==
    [][ /\ (\A a \in DOMAIN rdrdata'.apid_list :
               rdrdata'.apid_list[a].pkts_received = Len(TrackersOf(rdrdata', a)))
           => CountsAgree(rdrdata')
        /\ \A pkt_time \in RdrTimes : \A pkt \in RdrPackets :
              ( /\ npkts' = npkts + 1
                /\ add_packet(rdrdata, pkt_time, pkt).err = "InvalidPacket"
                /\ rdrdata' = add_packet(rdrdata, pkt_time, pkt).data )
              => rdrdata' = rdrdata ]_vars

----------------------------------------------------------------------------
(* The tables after an error of add, under SpecCreate *)

\* C29: an add call that returns an error, InvalidGranuleStart or one of add_packet,
\* leaves the primary and the packed table as they were before the call
C29_ErrorLeavesTables ==
    [][ (nadds' # nadds /\ call'.ret.kind = "err")
           => (primary' = primary /\ packed' = packed) ]_vars

\* What holds instead: an add call that returns InvalidGranuleStart leaves both
\* tables as they were; one that returns an error of add_packet leaves the other
\* accumulators as they were and the packet's accumulator without the packet
C29_GranuleStartErrorLeavesTables ==
    [][ (nadds' # nadds /\ call'.ret.kind = "err") =>
           IF call'.ret.err = "InvalidGranuleStart"
           THEN primary' = primary /\ packed' = packed
           ELSE /\ packed' = packed
                /\ \E key \in DOMAIN primary' :
                      /\ DOMAIN primary' = DOMAIN primary \cup {key}
                      /\ \A k \in DOMAIN primary \ {key} : primary'[k] = primary[k]
                      /\ StorageOf(primary', key) = StorageOf(primary, key) ]_vars

\* C29 witness: the first add returned InvalidTime and left an accumulator without
\* a packet in the primary table
C29_Witness ==
    /\ nadds = 1
    /\ call.op = "add" /\ call.ret = RetErr("InvalidTime")
    /\ \E key \in DOMAIN primary :
          /\ DOMAIN primary = {key}
          /\ primary[key].ap_storage = <<>>
          /\ primary[key].apid_list[call.apid].pkts_received = 1

----------------------------------------------------------------------------
(* The assertion of add, under SpecMulti *)

\* C30: for a configuration the validation accepts, the assertion of add that a
\* product which is not primary is packed never fails: no add call for an APID of a
\* configured product, at a time not before the base time, panics
C30_AssertionNeverFails ==
    validate(ConfigB) = ConfigOk(ConfigB) =>
        ( ( /\ call.op = "add"
            /\ LookupProduct(call.apid) # ""
            /\ call.time >= sat.base_time )
          => call.ret # RetPanic )

\* What holds instead: the assertion holds for the packets of every product that an
\* RdrSpec names as its product or in its packed_with
C30_AssertionHoldsForNamedProducts ==
    ( /\ call.op = "add"
      /\ LookupProduct(call.apid) \in DOMAIN primary_ids \cup packed_ids
      /\ call.time >= sat.base_time )
    => call.ret # RetPanic

\* C30 witness: the accepted configuration has a product that no RdrSpec names, and
\* the add call for a packet of its APID panicked
C30_Witness ==
    /\ validate(ConfigB) = ConfigOk(ConfigB)
    /\ call.op = "add" /\ call.time >= sat.base_time
    /\ LookupProduct(call.apid) = "RATMS"
    /\ "RATMS" \in DOMAIN products
    /\ "RATMS" \notin DOMAIN primary_ids \cup packed_ids
    /\ call.ret = RetPanic

====
